---- MODULE Spec2Model ----
(***************************************************************************)
(* A model of granary's ActivityStreams 1 utilities (src/granary/as1.py):  *)
(* the visibility resolver is_public, merge_by_id, the RSVP reconciler     *)
(* add_rsvps_to_event / get_rsvps_from_event, the change detector          *)
(* activity_changed, append_in_reply_to, original_post_discovery and       *)
(* prefix_urls; and of the write paths Meetup._create (meetup.py) and      *)
(* GitHub._create (github.py).                                             *)
(*                                                                         *)
(* JSON values.  A Python dict is a function whose domain is the set of    *)
(* keys that are present.  Where a slot can hold values of several Python  *)
(* types the value is tagged: [k |-> "str", s |-> ...] is a string,        *)
(* [k |-> "dict", d |-> ...] a dict, [k |-> "list", l |-> ...] a list and  *)
(* [k |-> "none"] is None.  Strings that the code takes apart or orders    *)
(* (ids, tag URIs, urls) are sequences of one-character strings; the URLs  *)
(* of the Meetup and GitHub write paths are TLA+ strings.                  *)
(***************************************************************************)
EXTENDS Integers, Sequences, FiniteSets, TLC

VARIABLES
  obj,          \* is_public: the object passed in
  pubResult,    \* is_public: "True", "False", "None", or "pending" before the call
  mobj,         \* merge_by_id: obj, a dict with at most the key "field"
  mergeNew,     \* merge_by_id: the `new` argument of the last call
  mergePrev,    \* merge_by_id: obj as it was before the last call
  mergeOutcome, \* merge_by_id: "idle", "ok" or "KeyError"
  mergeCalls,   \* merge_by_id: number of calls made
  event,        \* RSVP reconciler: the event dict
  event0,       \* RSVP reconciler: the event as constructed
  added,        \* RSVP reconciler: every RSVP passed to add_rsvps_to_event, in order
  lastAdd,      \* RSVP reconciler: <<event before, rsvps>> of the last add call
  getOutcome,   \* get_rsvps_from_event: "idle", "ok" or "TypeError"
  getResult,    \* get_rsvps_from_event: the returned list
  getEvent,     \* get_rsvps_from_event: the event as it was when the call started
  acBefore,     \* activity_changed: the earlier revision
  acAfter,      \* activity_changed: the later revision
  acEdits,      \* activity_changed: number of fields revised so far
  acDone,       \* activity_changed: whether the call has been made
  acResult,     \* activity_changed: the returned boolean
  arBefore,     \* append_in_reply_to: the before argument
  arAfter,      \* append_in_reply_to: the after argument, modified in place
  arAfter0,     \* append_in_reply_to: the after argument as passed
  arDone,       \* append_in_reply_to: whether the call has been made
  opdArgs,      \* original_post_discovery: candidates and keyword arguments
  opdPc,        \* original_post_discovery: "idle", "probe" or "done"
  opdFetched,   \* original_post_discovery: the follow_redirects calls made, in order
  opdRedirects, \* original_post_discovery: the dict `redirects`
  opdOriginals, \* original_post_discovery: the returned originals
  opdMentions,  \* original_post_discovery: the returned mentions
  puActivity,   \* prefix_urls: the activity, modified in place
  puInput,      \* prefix_urls: the activity as first passed
  puPrev,       \* prefix_urls: the activity before the last call
  puField,      \* prefix_urls: the field argument
  puCalls,      \* prefix_urls: number of calls made
  puOutcome,    \* prefix_urls: "idle", "ok" or "AttributeError"
  muObj,        \* Meetup._create: obj, the activity
  muEntry,      \* Meetup: the method called, create, preview_create or _create
  muPreview,    \* Meetup._create: the preview argument, "True", "False" or "None"
  muNet,        \* Meetup: what a request of URL_CANONICALIZER meets, "same" or "error"
  muPosts,      \* Meetup.post_rsvp: the requests sent to the API, in order
  muResult,     \* Meetup._create: the CreationResult returned
  muOutcome,    \* Meetup._create: "idle", "returned", or the exception raised
  ghType,       \* GitHub._create: type, of source.object_type(obj), "" for None
  ghBaseUrl,    \* GitHub._create: base_url, "" when the base object has none
  ghContent,    \* GitHub._create: orig_content
  ghTags,       \* GitHub._create: the displayNames of the tags of obj
  ghLabels,     \* GitHub.existing_labels: the labels of the repo
  ghPreview,    \* GitHub._create: preview
  ghNet,        \* GitHub.rest / graphql: the call that fails, if any, and how
  ghCalls,      \* GitHub.rest / graphql: the calls issued, in order
  ghResult,     \* GitHub._create: the CreationResult returned
  ghOutcome     \* GitHub._create: "idle", "returned", or the exception raised

vars == <<obj, pubResult, mobj, mergeNew, mergePrev, mergeOutcome, mergeCalls,
          event, event0, added, lastAdd, getOutcome, getResult, getEvent,
          acBefore, acAfter, acEdits, acDone, acResult,
          arBefore, arAfter, arAfter0, arDone,
          opdArgs, opdPc, opdFetched, opdRedirects, opdOriginals, opdMentions,
          puActivity, puInput, puPrev, puField, puCalls, puOutcome,
          muObj, muEntry, muPreview, muNet, muPosts, muResult, muOutcome,
          ghType, ghBaseUrl, ghContent, ghTags, ghLabels, ghPreview, ghNet, ghCalls, ghResult, ghOutcome>>

publicVars == <<obj, pubResult>>
mergeVars == <<mobj, mergeNew, mergePrev, mergeOutcome, mergeCalls>>
rsvpVars == <<event, event0, added, lastAdd, getOutcome, getResult, getEvent>>
changeVars == <<acBefore, acAfter, acEdits, acDone, acResult>>
appendVars == <<arBefore, arAfter, arAfter0, arDone>>
opdVars == <<opdArgs, opdPc, opdFetched, opdRedirects, opdOriginals, opdMentions>>
prefixVars == <<puActivity, puInput, puPrev, puField, puCalls, puOutcome>>
meetupVars == <<muObj, muEntry, muPreview, muNet, muPosts, muResult, muOutcome>>
githubVars == <<ghType, ghBaseUrl, ghContent, ghTags, ghLabels, ghPreview, ghNet, ghCalls, ghResult, ghOutcome>>

(***************************************************************************)
(* Generic helpers                                                         *)
(***************************************************************************)
SeqsUpTo(S, n) == UNION {[1..m -> S] : m \in 0..n}

EmptyDict == [x \in {} |-> 0]

None == [k |-> "none"]
Str(s) == [k |-> "str", s |-> s]
Dict(d) == [k |-> "dict", d |-> d]
List(l) == [k |-> "list", l |-> l]

\* dict.get(key, default)
Get(d, key, default) == IF key \in DOMAIN d THEN d[key] ELSE default

\* Python truthiness of a tagged value
Truthy(v) ==
  CASE v.k = "none" -> FALSE
    [] v.k = "str"  -> v.s # << >>
    [] v.k = "dict" -> DOMAIN v.d # {}
    [] v.k = "list" -> v.l # << >>

\* oauth_dropins.webutil.util.get_first(obj, key, default)
get_first(o, key, default) ==
  LET val == Get(o, key, None) IN
  IF ~Truthy(val) THEN default
  ELSE IF val.k = "list" THEN val.l[1]
  ELSE val

\* as1.get_object(obj, field)
get_object(o, fld) ==
  IF DOMAIN o = {} THEN EmptyDict
  ELSE LET first == get_first(o, fld, Dict(EmptyDict))
           val == IF Truthy(first) THEN first ELSE Dict(EmptyDict)
       IN IF val.k = "str" THEN [id |-> val] ELSE val.d

(***************************************************************************)
(* Visibility resolver: is_public                                          *)
(***************************************************************************)
MaxTo == 2       \* longest `to` list of the object itself
MaxObjTo == 1    \* longest `to` list of the nested object

\* Python None / the empty string as an alias or objectType value
NoneStr == "<None>"

\* trim_nulls on a list of strings: drops None and ''
RECURSIVE trim_nulls(_)
trim_nulls(l) ==
  IF l = << >> THEN << >>
  ELSE LET rest == trim_nulls(Tail(l)) IN
       IF Head(l) = NoneStr \/ Head(l) = "" THEN rest ELSE <<Head(l)>> \o rest

Elems(l) == {l[i] : i \in DOMAIN l}

\* the list `to` as seen by bool(): a missing key and an empty list are both falsy
ToOf(d) == Get(d, "to", << >>)

\* line 159:  to = obj.get('to') or get_object(obj).get('to') or []
AudienceOf(o) ==
  IF ToOf(o) # << >> THEN ToOf(o) ELSE ToOf(get_object(o, "object"))

is_public_wrong_precedence(o) ==
  LET to == AudienceOf(o)
      aliases == trim_nulls([i \in DOMAIN to |-> Get(to[i], "alias", NoneStr)])
      object_types == trim_nulls([i \in DOMAIN to |-> Get(to[i], "objectType", NoneStr)])
  IN IF "@public" \in Elems(aliases) \/ "@unlisted" \in Elems(aliases) THEN "True"
     ELSE IF aliases # << >> THEN "False"
     ELSE IF "unknown" \in Elems(object_types) THEN "None"
     ELSE "True"

is_public_no_fallback(o) ==
  LET to == ToOf(o)
      aliases == trim_nulls([i \in DOMAIN to |-> Get(to[i], "alias", NoneStr)])
      object_types == trim_nulls([i \in DOMAIN to |-> Get(to[i], "objectType", NoneStr)])
  IN IF "@public" \in Elems(aliases) \/ "@unlisted" \in Elems(aliases) THEN "True"
     ELSE IF "unknown" \in Elems(object_types) THEN "None"
     ELSE IF aliases # << >> THEN "False"
     ELSE "True"

is_public(o) ==
  LET to == AudienceOf(o)
      aliases == trim_nulls([i \in DOMAIN to |-> Get(to[i], "alias", NoneStr)])
      object_types == trim_nulls([i \in DOMAIN to |-> Get(to[i], "objectType", NoneStr)])
  IN IF "@public" \in Elems(aliases) \/ "@unlisted" \in Elems(aliases) THEN "True"
     ELSE IF "unknown" \in Elems(object_types) THEN "None"
     ELSE IF aliases # << >> THEN "False"
     ELSE "True"

\* Audience entries: what the library generates (objectType group, alias @public,
\* @unlisted, @private), entries of unknown type, and null or empty aliases.
AudienceEntries ==
  {EmptyDict, [alias |-> "@private", objectType |-> "group"]}
  \cup [{"alias"} -> {"@public", "@unlisted", "", NoneStr}]
  \cup [{"objectType"} -> {"unknown", "group"}]

\* nested objects: with or without a `to`
NestedObjects ==
  {EmptyDict} \cup {[to |-> l] : l \in SeqsUpTo(AudienceEntries, MaxObjTo)}

PrivateObject == [to |-> <<[alias |-> "@private", objectType |-> "group"]>>]

\* the `object` field: a bare id string, a dict, or a list whose first element counts
ObjectValues ==
  {Str(<<"i", "d", "1">>), List(<< >>), List(<<Str(<<"i", "d", "1">>), Dict(PrivateObject)>>)}
  \cup {Dict(d) : d \in NestedObjects}
  \cup {List(<<Dict(d), Dict(PrivateObject)>>) : d \in NestedObjects}

PublicInputs ==
  {EmptyDict}
  \cup {[to |-> l] : l \in SeqsUpTo(AudienceEntries, MaxTo)}
  \cup {[object |-> ov] : ov \in ObjectValues}
  \cup {[to |-> l, object |-> ov] : l \in SeqsUpTo(AudienceEntries, MaxTo), ov \in ObjectValues}

PublicIdle == obj = EmptyDict /\ pubResult = "idle"

PublicInit == obj \in PublicInputs /\ pubResult = "pending"

IsPublic ==
  /\ pubResult = "pending"
  /\ pubResult' = is_public(obj)
  /\ UNCHANGED obj

(***************************************************************************)
(* merge_by_id                                                             *)
(***************************************************************************)
MaxField == 1        \* longest obj[field] at construction
MaxNew == 2          \* longest `new` argument
MaxMergeCalls == 2   \* calls of merge_by_id in one behaviour

\* code points of the characters that occur in ids
Ord(c) ==
  CASE c = "0" -> 48 [] c = "1" -> 49 [] c = "2" -> 50

\* Python's str < str: lexicographic by code point, a proper prefix is smaller
RECURSIVE StrLess(_, _)
StrLess(a, b) ==
  IF b = << >> THEN FALSE
  ELSE IF a = << >> THEN TRUE
  ELSE IF Ord(Head(a)) # Ord(Head(b)) THEN Ord(Head(a)) < Ord(Head(b))
  ELSE StrLess(Tail(a), Tail(b))

\* ids "1", "10", "2": as strings "10" sorts before "2"
MergeIds == {<<"1">>, <<"1", "0">>, <<"2">>}

\* items with an id, two of them with the same id, and an item without
MergeItems ==
  {[id |-> i, v |-> 1] : i \in MergeIds} \cup {[id |-> <<"2">>, v |-> 2], [v |-> 1]}

\* {o['id']: o for o in items}: a dict in insertion order, as a list of <<key, value>>;
\* a later item with a key already present replaces the value and keeps the position
RECURSIVE DictById(_, _)
DictById(items, acc) ==
  IF items = << >> THEN acc
  ELSE LET o == Head(items)
           at == {i \in DOMAIN acc : acc[i][1] = o.id}
       IN DictById(Tail(items),
                   IF at = {} THEN Append(acc, <<o.id, o>>)
                   ELSE [i \in DOMAIN acc |-> IF i \in at THEN <<o.id, o>> ELSE acc[i]])

Values(d) == [i \in DOMAIN d |-> d[i][2]]

\* sorted(l, key=itemgetter('id')): a stable insertion sort
RECURSIVE InsertById(_, _)
InsertById(sorted, o) ==
  IF sorted = << >> THEN <<o>>
  ELSE IF StrLess(o.id, Head(sorted).id) THEN <<o>> \o sorted
  ELSE <<Head(sorted)>> \o InsertById(Tail(sorted), o)

RECURSIVE SortedById(_)
SortedById(l) ==
  IF l = << >> THEN << >>
  ELSE InsertById(SortedById(SubSeq(l, 1, Len(l) - 1)), l[Len(l)])

LacksId(items) == \E i \in DOMAIN items : "id" \notin DOMAIN items[i]

merge_by_id_existing_wins(o, new) ==
  LET items == new \o Get(o, "field", << >>) IN
  IF LacksId(items) THEN [obj |-> o, outcome |-> "KeyError"]
  ELSE [obj |-> [field |-> SortedById(Values(DictById(items, << >>)))],
        outcome |-> "ok"]

merge_by_id_extends_first(o, new) ==
  LET items == Get(o, "field", << >>) \o new IN
  IF LacksId(items) THEN [obj |-> [field |-> items], outcome |-> "KeyError"]
  ELSE [obj |-> [field |-> SortedById(Values(DictById(items, << >>)))],
        outcome |-> "ok"]

\* merge_by_id(obj, field, new): the dict after the call and how the call ended
merge_by_id(o, new) ==
  LET items == Get(o, "field", << >>) \o new IN
  IF LacksId(items) THEN [obj |-> o, outcome |-> "KeyError"]
  ELSE [obj |-> [field |-> SortedById(Values(DictById(items, << >>)))],
        outcome |-> "ok"]

MergeIdle ==
  /\ mobj = EmptyDict /\ mergeNew = << >> /\ mergePrev = EmptyDict
  /\ mergeOutcome = "idle" /\ mergeCalls = 0

MergeInit ==
  /\ mobj \in {EmptyDict} \cup {[field |-> l] : l \in SeqsUpTo(MergeItems, MaxField)}
  /\ mergeNew = << >> /\ mergePrev = EmptyDict
  /\ mergeOutcome = "idle" /\ mergeCalls = 0

MergeById(new) ==
  /\ mergeCalls < MaxMergeCalls
  /\ LET r == merge_by_id(mobj, new) IN
       /\ mobj' = r.obj
       /\ mergeOutcome' = r.outcome
  /\ mergePrev' = mobj
  /\ mergeNew' = new
  /\ mergeCalls' = mergeCalls + 1

(***************************************************************************)
(* Tag URIs (oauth_dropins.webutil.util), over character sequences         *)
(***************************************************************************)
Lower == {"a", "b", "c", "d", "e", "f", "g", "h", "i", "j", "k", "l", "m",
          "n", "o", "p", "q", "r", "s", "t", "u", "v", "w", "x", "y", "z"}
Upper == {"A", "B", "C", "D", "E", "F", "G", "H", "I", "J", "K", "L", "M",
          "N", "O", "P", "Q", "R", "S", "T", "U", "V", "W", "X", "Y", "Z"}
Digits == {"0", "1", "2", "3", "4", "5", "6", "7", "8", "9"}
\* [a-zA-Z0-9._-]
DomainChars == Lower \cup Upper \cup Digits \cup {".", "_", "-"}

\* length of the longest prefix of s made of characters of class
RECURSIVE Run(_, _)
Run(s, class) ==
  IF s = << >> \/ Head(s) \notin class THEN 0 ELSE 1 + Run(Tail(s), class)

Drop(s, n) == SubSeq(s, n + 1, Len(s))
Take(s, n) == SubSeq(s, 1, n)

\* str.startswith
StartsWith(s, prefix) == Len(s) >= Len(prefix) /\ Take(s, Len(prefix)) = prefix

\* `sub in s` for strings
Contains(s, sub) ==
  \E i \in 0..(Len(s) - Len(sub)) : SubSeq(s, i + 1, i + Len(sub)) = sub

NoMatch == [ok |-> FALSE]

\* util.parse_tag_uri: re.match(r'tag:([a-zA-Z0-9._-]+)(?:,\d+)?:(.+)$'); the
\* groups (domain, name), or no match
parse_tag_uri(uri) ==
  IF ~StartsWith(uri, <<"t", "a", "g", ":">>) THEN NoMatch
  ELSE LET rest == Drop(uri, 4)
           n == Run(rest, DomainChars)
           after == Drop(rest, n)
           m == IF after # << >> /\ Head(after) = "," THEN Run(Tail(after), Digits) ELSE 0
           tail == IF m > 0 THEN Drop(after, m + 1) ELSE after
       IN IF n = 0 \/ tail = << >> \/ Head(tail) # ":" \/ Len(tail) < 2 THEN NoMatch
          ELSE [ok |-> TRUE, domain |-> Take(rest, n), name |-> Tail(tail)]

\* util.tag_uri(domain, name): f'tag:{domain}:{name}'
tag_uri(domain, name) == <<"t", "a", "g", ":">> \o domain \o <<":">> \o name

(***************************************************************************)
(* RSVP reconciler: add_rsvps_to_event, get_rsvps_from_event               *)
(***************************************************************************)
MaxAdded == 2    \* RSVPs added to one event over all calls

\* RSVP_VERB_TO_COLLECTION, an OrderedDict: <<verb, collection>> in priority order
RSVP_VERB_TO_COLLECTION ==
  << <<"rsvp-yes", "attending">>,
     <<"rsvp-no", "notAttending">>,
     <<"rsvp-maybe", "maybeAttending">>,
     <<"rsvp-interested", "interested">>,
     <<"invite", "invited">> >>

RsvpVerbs == {RSVP_VERB_TO_COLLECTION[i][1] : i \in DOMAIN RSVP_VERB_TO_COLLECTION}
Collections == {RSVP_VERB_TO_COLLECTION[i][2] : i \in DOMAIN RSVP_VERB_TO_COLLECTION}

\* RSVP_VERB_TO_COLLECTION.get(verb): the collection, or "" for None
CollectionOf(verb) ==
  IF verb \in RsvpVerbs
  THEN (CHOOSE p \in Elems(RSVP_VERB_TO_COLLECTION) : p[1] = verb)[2]
  ELSE ""

\* event.setdefault(field, []).append(value)
AppendTo(e, fld, value) ==
  [key \in DOMAIN e \cup {fld} |->
     IF key = fld THEN Append(Get(e, fld, << >>), value) ELSE e[key]]

add_rsvp_drops_invite(e, rsvp) ==
  LET fld == CollectionOf(Get(rsvp, "verb", NoneStr)) IN
  IF fld # "" /\ fld # "invited" THEN AppendTo(e, fld, Get(rsvp, "actor", None))
  ELSE e

add_rsvp_default_collection(e, rsvp) ==
  LET known == CollectionOf(Get(rsvp, "verb", NoneStr))
      fld == IF known = "" THEN "interested" ELSE known
  IN AppendTo(e, fld, Get(rsvp, IF fld = "invited" THEN "object" ELSE "actor", None))

add_rsvp_always_actor(e, rsvp) ==
  LET fld == CollectionOf(Get(rsvp, "verb", NoneStr)) IN
  IF fld # "" THEN AppendTo(e, fld, Get(rsvp, "actor", None)) ELSE e

\* the body of the loop of add_rsvps_to_event, lines 176-179
add_rsvp(e, rsvp) ==
  LET fld == CollectionOf(Get(rsvp, "verb", NoneStr)) IN
  IF fld # ""
  THEN AppendTo(e, fld, Get(rsvp, IF fld = "invited" THEN "object" ELSE "actor", None))
  ELSE e

\* add_rsvps_to_event(event, rsvps): the event after the call
RECURSIVE add_rsvps_to_event(_, _)
add_rsvps_to_event(e, rsvps) ==
  IF rsvps = << >> THEN e
  ELSE add_rsvps_to_event(add_rsvp(e, Head(rsvps)), Tail(rsvps))

\* `'id' in actor`: key membership for a dict, substring test for a string;
\* None is not iterable
HasId(actor) ==
  CASE actor.k = "dict" -> IF "id" \in DOMAIN actor.d THEN "yes" ELSE "no"
    [] actor.k = "str"  -> IF Contains(actor.s, <<"i", "d">>) THEN "yes" ELSE "no"
    [] actor.k = "none" -> "TypeError"

RsvpFor_actor_domain(verb, actor, domain, event_id, url, author) ==
  LET key == IF verb = "invite" THEN "object" ELSE "actor"
      base == [k \in {"objectType", "verb", key, "url"} |->
                 CASE k = "objectType" -> "activity"
                   [] k = "verb" -> verb
                   [] k = key -> actor
                   [] k = "url" -> url]
      has == HasId(actor)
      withAuthor(r) ==
        IF verb = "invite" /\ Truthy(author)
        THEN [k \in DOMAIN r \cup {"actor"} |-> IF k = "actor" THEN author ELSE r[k]]
        ELSE r
  IN IF has = "TypeError" THEN [ok |-> FALSE]
     ELSE IF event_id # << >> /\ has = "yes"
     THEN \* actor['id'] on a string, or unpacking the None that parse_tag_uri
          \* returns for an id that is no tag URI, raises TypeError
          IF actor.k # "dict" THEN [ok |-> FALSE]
          ELSE LET parsed == parse_tag_uri(actor.d.id) IN
               IF ~parsed.ok THEN [ok |-> FALSE]
               ELSE LET actor_id == parsed.name
                        r == [k \in DOMAIN base \cup {"id"} |->
                                CASE k = "id" ->
                                       tag_uri(parsed.domain, event_id \o <<"_", "r", "s", "v", "p", "_">> \o actor_id)
                                  [] k = "url" ->
                                       IF Truthy(url) THEN Str(url.s \o <<"#">> \o actor_id) ELSE url
                                  [] OTHER -> base[k]]
                    IN [ok |-> TRUE, rsvp |-> withAuthor(r)]
     ELSE [ok |-> TRUE, rsvp |-> withAuthor(base)]

RsvpFor_author_always(verb, actor, domain, event_id, url, author) ==
  LET key == IF verb = "invite" THEN "object" ELSE "actor"
      base == [k \in {"objectType", "verb", key, "url"} |->
                 CASE k = "objectType" -> "activity"
                   [] k = "verb" -> verb
                   [] k = key -> actor
                   [] k = "url" -> url]
      has == HasId(actor)
      withAuthor(r) ==
        IF Truthy(author)
        THEN [k \in DOMAIN r \cup {"actor"} |-> IF k = "actor" THEN author ELSE r[k]]
        ELSE r
  IN IF has = "TypeError" THEN [ok |-> FALSE]
     ELSE IF event_id # << >> /\ has = "yes"
     THEN \* actor['id'] on a string, or unpacking the None that parse_tag_uri
          \* returns for an id that is no tag URI, raises TypeError
          IF actor.k # "dict" THEN [ok |-> FALSE]
          ELSE LET parsed == parse_tag_uri(actor.d.id) IN
               IF ~parsed.ok THEN [ok |-> FALSE]
               ELSE LET actor_id == parsed.name
                        r == [k \in DOMAIN base \cup {"id"} |->
                                CASE k = "id" ->
                                       tag_uri(domain, event_id \o <<"_", "r", "s", "v", "p", "_">> \o actor_id)
                                  [] k = "url" ->
                                       IF Truthy(url) THEN Str(url.s \o <<"#">> \o actor_id) ELSE url
                                  [] OTHER -> base[k]]
                    IN [ok |-> TRUE, rsvp |-> withAuthor(r)]
     ELSE [ok |-> TRUE, rsvp |-> withAuthor(base)]

\* lines 204-219: the RSVP for one entry of a collection, [ok |-> FALSE] when the
\* code raises
RsvpFor(verb, actor, domain, event_id, url, author) ==
  LET key == IF verb = "invite" THEN "object" ELSE "actor"
      base == [k \in {"objectType", "verb", key, "url"} |->
                 CASE k = "objectType" -> "activity"
                   [] k = "verb" -> verb
                   [] k = key -> actor
                   [] k = "url" -> url]
      has == HasId(actor)
      withAuthor(r) ==
        IF verb = "invite" /\ Truthy(author)
        THEN [k \in DOMAIN r \cup {"actor"} |-> IF k = "actor" THEN author ELSE r[k]]
        ELSE r
  IN IF has = "TypeError" THEN [ok |-> FALSE]
     ELSE IF event_id # << >> /\ has = "yes"
     THEN \* actor['id'] on a string, or unpacking the None that parse_tag_uri
          \* returns for an id that is no tag URI, raises TypeError
          IF actor.k # "dict" THEN [ok |-> FALSE]
          ELSE LET parsed == parse_tag_uri(actor.d.id) IN
               IF ~parsed.ok THEN [ok |-> FALSE]
               ELSE LET actor_id == parsed.name
                        r == [k \in DOMAIN base \cup {"id"} |->
                                CASE k = "id" ->
                                       tag_uri(domain, event_id \o <<"_", "r", "s", "v", "p", "_">> \o actor_id)
                                  [] k = "url" ->
                                       IF Truthy(url) THEN Str(url.s \o <<"#">> \o actor_id) ELSE url
                                  [] OTHER -> base[k]]
                    IN [ok |-> TRUE, rsvp |-> withAuthor(r)]
     ELSE [ok |-> TRUE, rsvp |-> withAuthor(base)]

\* the entries of all collections as <<verb, entry>>, verbs in table order (lines 202-203)
RECURSIVE EntriesFrom(_, _)
EntriesFrom(e, i) ==
  IF i > Len(RSVP_VERB_TO_COLLECTION) THEN << >>
  ELSE LET verb == RSVP_VERB_TO_COLLECTION[i][1]
           l == Get(e, RSVP_VERB_TO_COLLECTION[i][2], << >>)
       IN [j \in DOMAIN l |-> <<verb, l[j]>>] \o EntriesFrom(e, i + 1)

\* ids and urls are plain strings in an event; .get gives None when missing
GetStr(d, key) == IF key \in DOMAIN d THEN Str(d[key]) ELSE None
GetDict(d, key) == IF key \in DOMAIN d THEN Dict(d[key]) ELSE None

get_rsvps_from_event_unparsed_id(e) ==
  LET id == GetStr(e, "id")
      parsed == IF Truthy(id) THEN parse_tag_uri(id.s) ELSE NoMatch
      domain == IF parsed.ok THEN parsed.domain ELSE << >>
      event_id == IF parsed.ok THEN parsed.name ELSE << >>
      url == GetStr(e, "url")
      author == GetDict(e, "author")
      entries == EntriesFrom(e, 1)
      made == [j \in DOMAIN entries |->
                 RsvpFor(entries[j][1], entries[j][2], domain, event_id, url, author)]
  IN IF \E j \in DOMAIN made : ~made[j].ok
     THEN [outcome |-> "TypeError", rsvps |-> << >>]
     ELSE [outcome |-> "ok", rsvps |-> [j \in DOMAIN made |-> made[j].rsvp]]

\* get_rsvps_from_event(event): [outcome, rsvps]
get_rsvps_from_event(e) ==
  LET id == GetStr(e, "id")
      parsed == IF Truthy(id) THEN parse_tag_uri(id.s) ELSE NoMatch
  IN IF ~Truthy(id) \/ ~parsed.ok THEN [outcome |-> "ok", rsvps |-> << >>]
     ELSE LET url == GetStr(e, "url")
              author == GetDict(e, "author")
              entries == EntriesFrom(e, 1)
              made == [j \in DOMAIN entries |->
                         RsvpFor(entries[j][1], entries[j][2], parsed.domain,
                                 parsed.name, url, author)]
          IN IF \E j \in DOMAIN made : ~made[j].ok
             THEN [outcome |-> "TypeError", rsvps |-> << >>]
             ELSE [outcome |-> "ok", rsvps |-> [j \in DOMAIN made |-> made[j].rsvp]]

\* strings of the RSVP inputs
EventIdPlain == <<"t", "a", "g", ":", "e", ".", "x", ":", "1">>            \* tag:e.x:1
EventIdYear == <<"t", "a", "g", ":", "e", ".", "x", ",", "2", ":", "1">>   \* tag:e.x,2:1
EventIdBad == <<"e", "1">>                                                \* no tag URI
EventUrl == <<"h", "t", "t", "p", ":", "/", "/", "e", ".", "x", "/", "1">>

Ann == [id |-> <<"t", "a", "g", ":", "a", ".", "b", ":", "7">>, displayName |-> "Ann"]
Bea == [id |-> <<"t", "a", "g", ":", "e", ".", "x", ",", "3", ":", "8">>]
BadId == [id |-> <<"u", "9">>]             \* a record whose id is no tag URI
NoId == [displayName |-> "Bob"]            \* a record without an id
BareBob == Str(<<"b", "o", "b">>)          \* a bare string
BareSid == Str(<<"t", "a", "g", ":", "a", ".", "b", ":", "s", "i", "d">>)  \* a bare id string
Host == [id |-> <<"t", "a", "g", ":", "e", ".", "x", ":", "0">>, displayName |-> "Host"]

\* RSVPs whose verb is in the table and whose actor (object, for invite) is a record
\* with a tag URI id
GoodRsvps ==
  {[verb |-> "rsvp-yes", actor |-> Dict(Ann)],
   [verb |-> "rsvp-no", actor |-> Dict(Bea)],
   [verb |-> "rsvp-maybe", actor |-> Dict(Bea)],
   [verb |-> "rsvp-interested", actor |-> Dict(Ann)],
   [verb |-> "invite", actor |-> Dict(Ann), object |-> Dict(Bea)]}

\* RSVPs with another verb or none
OtherVerbRsvps ==
  {[verb |-> "follow", actor |-> Dict(Ann), object |-> Dict(Bea)],
   [actor |-> Dict(Ann)]}

\* an RSVP whose actor is a record with an id that is no tag URI
OddRsvps == {[verb |-> "rsvp-yes", actor |-> Dict(BadId)]}

RsvpInputs == GoodRsvps \cup OtherVerbRsvps \cup OddRsvps

\* events as constructed: id, url and author present or not
EventHeads ==
  {[id |-> EventIdPlain, url |-> EventUrl, author |-> Host],
   [id |-> EventIdYear, url |-> EventUrl],
   [id |-> EventIdPlain],
   [id |-> EventIdBad, url |-> EventUrl, author |-> Host],
   [url |-> EventUrl, author |-> Host]}

\* the collections as constructed: absent; present, empty or filled with records;
\* holding a bare string and a record whose id is no tag URI; holding a bare id
\* string; holding None
EventCollections ==
  {EmptyDict,
   [attending |-> <<Dict(Bea)>>, notAttending |-> << >>, invited |-> <<Dict(NoId), Dict(Ann)>>],
   [maybeAttending |-> <<BareBob>>, interested |-> <<Dict(BadId)>>],
   [attending |-> <<BareSid>>],
   [invited |-> <<None>>]}

Merged(a, b) == [key \in DOMAIN a \cup DOMAIN b |-> IF key \in DOMAIN a THEN a[key] ELSE b[key]]

Events == {Merged(h, c) : h \in EventHeads, c \in EventCollections}

RsvpIdle ==
  /\ event = EmptyDict /\ event0 = EmptyDict /\ added = << >>
  /\ lastAdd = [called |-> FALSE, before |-> EmptyDict, rsvps |-> << >>]
  /\ getOutcome = "idle" /\ getResult = << >> /\ getEvent = EmptyDict

RsvpInit ==
  /\ event \in Events /\ event0 = event /\ added = << >>
  /\ lastAdd = [called |-> FALSE, before |-> EmptyDict, rsvps |-> << >>]
  /\ getOutcome = "idle" /\ getResult = << >> /\ getEvent = EmptyDict

AddRsvps(rsvps) ==
  /\ Len(added) + Len(rsvps) <= MaxAdded
  /\ event' = add_rsvps_to_event(event, rsvps)
  /\ added' = added \o rsvps
  /\ lastAdd' = [called |-> TRUE, before |-> event, rsvps |-> rsvps]
  /\ UNCHANGED <<event0, getOutcome, getResult, getEvent>>

GetRsvps ==
  /\ LET r == get_rsvps_from_event(event) IN
       /\ getOutcome' = r.outcome
       /\ getResult' = r.rsvps
  /\ getEvent' = event
  /\ UNCHANGED <<event, event0, added, lastAdd>>

(***************************************************************************)
(* Change detector: activity_changed                                       *)
(***************************************************************************)
MaxEdits == 2    \* most fields in which the later revision differs from the earlier

\* b_val.pop(field, None) for every field to ignore (lines 246-248)
Pop(d, ignore) == [key \in DOMAIN d \ ignore |-> d[key]]

\* changed(b, a, field, label, ignore), lines 241-255; the label only goes to the log
changed(b, a, field, ignore) ==
  LET b0 == Get(b, field, None)
      a0 == Get(a, field, None)
      both == ignore # {} /\ b0.k = "dict" /\ a0.k = "dict"
      b_val == IF both THEN Dict(Pop(b0.d, ignore)) ELSE b0
      a_val == IF both THEN Dict(Pop(a0.d, ignore)) ELSE a0
  IN b_val # a_val /\ (Truthy(a_val) \/ Truthy(b_val))

\* the fields compared at line 260
ComparedFields == {"objectType", "verb", "to", "content", "location", "image"}

activity_changed_top_level(before, after) ==
  \/ \E field \in ComparedFields : changed(before, after, field, {})
  \/ changed(before, after, "inReplyTo", {"author"})

\* activity_changed(before, after), lines 224-269
activity_changed(before, after) ==
  LET obj_b == get_object(before, "object")
      obj_a == get_object(after, "object")
  IN \/ \E field \in ComparedFields :
          changed(before, after, field, {}) \/ changed(obj_b, obj_a, field, {})
     \/ changed(before, after, "inReplyTo", {"author"})
     \/ changed(obj_b, obj_a, "inReplyTo", {"author"})

\* field values of the revisions
TextA == Str(<<"a">>)
TextB == Str(<<"b">>)
ReplyUrl == Str(<<"u">>)
ReplyA == Dict([url |-> ReplyUrl, author |-> TextA])      \* a reply pointer
ReplyB == Dict([url |-> ReplyUrl, author |-> TextB])      \* the same, other author
ReplyOther == Dict([url |-> Str(<<"w">>), author |-> TextA])

\* fields activity_changed does not look at
OtherFields == {"author", "published", "updated"}

\* the values a revision may give a field; None stands for removing the field
NewValues(field) ==
  CASE field = "inReplyTo" ->
         {None, ReplyA, ReplyB, ReplyOther, List(<<ReplyA>>), List(<<ReplyB>>)}
    [] field = "to" -> {None, List(<< >>), List(<<TextB>>)}
    [] field \in {"location", "image"} -> {None, Dict(EmptyDict), Dict([url |-> TextB])}
    [] field \in OtherFields -> {None, TextB}
    [] OTHER -> {None, Str(<< >>), TextB}

RevisedFields == ComparedFields \cup {"inReplyTo"} \cup OtherFields

\* the earlier revision: an activity with a nested object, a bare object, an
\* activity whose object is a bare id string
Befores ==
  {[objectType |-> TextA, verb |-> TextA, content |-> TextA, author |-> TextA,
    published |-> TextA, inReplyTo |-> ReplyA,
    object |-> Dict([objectType |-> TextA, content |-> TextA, author |-> TextA,
                     inReplyTo |-> List(<<ReplyA>>)])],
   [content |-> TextA, to |-> List(<<TextA>>), inReplyTo |-> List(<<ReplyA>>)],
   [verb |-> TextA, object |-> Str(<<"o">>)]}

\* d with d[field] set to value, or without the field when value is None
With(d, field, value) ==
  IF value = None THEN [key \in DOMAIN d \ {field} |-> d[key]]
  ELSE [key \in DOMAIN d \cup {field} |-> IF key = field THEN value ELSE d[key]]

ChangeIdle ==
  /\ acBefore = EmptyDict /\ acAfter = EmptyDict /\ acEdits = 0
  /\ acDone = FALSE /\ acResult = FALSE

ChangeInit ==
  /\ acBefore \in Befores /\ acAfter = acBefore /\ acEdits = 0
  /\ acDone = FALSE /\ acResult = FALSE

\* the silo serves a later revision that differs in one more field of the activity
ReviseActivity(field, value) ==
  /\ ~acDone /\ acEdits < MaxEdits
  /\ acAfter' = With(acAfter, field, value)
  /\ acAfter' # acAfter
  /\ acEdits' = acEdits + 1
  /\ UNCHANGED <<acBefore, acDone, acResult>>

\* ... or in one more field of its nested object
ReviseObject(field, value) ==
  /\ ~acDone /\ acEdits < MaxEdits
  /\ Get(acAfter, "object", Dict(EmptyDict)).k = "dict"
  /\ LET o == Get(acAfter, "object", Dict(EmptyDict)).d
         o2 == With(o, field, value)
     IN /\ o2 # o
        /\ acAfter' = With(acAfter, "object", Dict(o2))
  /\ acEdits' = acEdits + 1
  /\ UNCHANGED <<acBefore, acDone, acResult>>

ActivityChanged ==
  /\ ~acDone
  /\ acDone' = TRUE
  /\ acResult' = activity_changed(acBefore, acAfter)
  /\ UNCHANGED <<acBefore, acAfter, acEdits>>

(***************************************************************************)
(* append_in_reply_to                                                      *)
(***************************************************************************)
MaxReplies == 2   \* longest inReplyTo list of an argument

\* oauth_dropins.webutil.util.get_list(obj, key)
get_list(o, key) ==
  LET val == Get(o, key, List(<< >>)) IN
  IF val.k = "list" THEN val.l ELSE IF Truthy(val) THEN <<val>> ELSE << >>

\* oauth_dropins.webutil.util.get_url(val)
get_url(val) == IF val.k = "dict" THEN Get(val.d, "url", None) ELSE val

\* oauth_dropins.webutil.util.dedupe_urls(urls), on urls in normal form: the
\* first entry of every url, in order; entries without a url are dropped
RECURSIVE DedupeFrom(_, _)
DedupeFrom(urls, seen) ==
  IF urls = << >> THEN << >>
  ELSE LET url == get_url(Head(urls)) IN
       IF ~Truthy(url) \/ url \in seen THEN DedupeFrom(Tail(urls), seen)
       ELSE <<Head(urls)>> \o DedupeFrom(Tail(urls), seen \cup {url})

dedupe_urls(urls) == DedupeFrom(urls, {})

\* append_in_reply_to(before, after), lines 272-284: `after` when the call returns.
\* obj_a is after itself, the dict after['object'], the first dict of the list
\* after['object'], or, for a bare id string, the dict {'id': ...} that get_object
\* has just built; the assignment of line 284 goes to that dict
append_in_reply_to(before, after) ==
  LET got_b == get_object(before, "object")
      got_a == get_object(after, "object")
      obj_b == IF DOMAIN got_b # {} THEN got_b ELSE before
      obj_a == IF DOMAIN got_a # {} THEN got_a ELSE after
  IN IF DOMAIN obj_b = {} \/ DOMAIN obj_a = {} THEN after
     ELSE LET reply_b == get_list(obj_b, "inReplyTo")
              reply_a == get_list(obj_a, "inReplyTo")
              set_a == With(obj_a, "inReplyTo", List(dedupe_urls(reply_a \o reply_b)))
              held == Get(after, "object", None)
          IN IF DOMAIN got_a = {} THEN set_a
             ELSE IF held.k = "dict" THEN With(after, "object", Dict(set_a))
             ELSE IF held.k = "list" /\ held.l[1].k = "dict"
             THEN With(after, "object",
                       List([i \in DOMAIN held.l |-> IF i = 1 THEN Dict(set_a) ELSE held.l[i]]))
             ELSE after

\* reply pointers: two urls, and a second pointer to the first url
Reply1 == Dict([url |-> Str(<<"u", "1">>)])
Reply2 == Dict([url |-> Str(<<"u", "2">>)])
Reply1Again == Dict([url |-> Str(<<"u", "1">>), id |-> Str(<<"x">>)])

\* an object without inReplyTo, with a single pointer, with a list of pointers
WithReplies(o) ==
  {o, With(o, "inReplyTo", Reply1)}
  \cup {With(o, "inReplyTo", List(l)) : l \in SeqsUpTo({Reply1, Reply2, Reply1Again}, MaxReplies)}

\* the earlier revision: empty, a bare object, an activity with a nested object
AppendBefores ==
  {EmptyDict}
  \cup WithReplies([id |-> Str(<<"b">>)])
  \cup {[id |-> Str(<<"b">>), object |-> Dict(o)] : o \in WithReplies([id |-> Str(<<"p">>)])}

\* the later revision: a bare object; an activity whose object is a record, a
\* list holding a record, a bare id string
AppendAfters ==
  WithReplies([id |-> Str(<<"a">>)])
  \cup {[id |-> Str(<<"a">>), object |-> Dict(o)] : o \in WithReplies([id |-> Str(<<"o">>)])}
  \cup {[id |-> Str(<<"a">>), object |-> List(<<Dict(o)>>)] : o \in WithReplies([id |-> Str(<<"o">>)])}
  \cup WithReplies([id |-> Str(<<"a">>), object |-> Str(<<"o">>)])

AppendIdle ==
  arBefore = EmptyDict /\ arAfter = EmptyDict /\ arAfter0 = EmptyDict /\ arDone = FALSE

AppendInit ==
  /\ arBefore \in AppendBefores /\ arAfter \in AppendAfters
  /\ arAfter0 = arAfter /\ arDone = FALSE

AppendInReplyTo ==
  /\ ~arDone
  /\ arAfter' = append_in_reply_to(arBefore, arAfter)
  /\ arDone' = TRUE
  /\ UNCHANGED <<arBefore, arAfter0>>

(***************************************************************************)
(* Original-post discoverer: original_post_discovery, from the cleaned,    *)
(* de-duplicated candidates of line 342 on.  A URL is the record of its    *)
(* host, a sequence of labels, and its path.                               *)
(***************************************************************************)
MaxCandidates == 2   \* most candidate URLs of an activity
MaxFetches == 1      \* largest max_redirect_fetches passed

Number(n) == [k |-> "int", n |-> n]

Url(host, path) == [host |-> host, path |-> path]

\* URLs that may redirect: a short link and a link on a local host
ShortUrl == Url(<<"t", "co">>, "s")
LocalUrl == Url(<<"my-server">>, "x")
Sources == {ShortUrl, LocalUrl}

\* URLs that answer themselves: on a subdomain of a.com, on b.org, on a reserved
\* TLD, and a PDF on b.org
SubUrl == Url(<<"sub", "a", "com">>, "1")
OtherUrl == Url(<<"b", "org">>, "3")
ReservedUrl == Url(<<"foo", "example">>, "4")
PdfUrl == Url(<<"b", "org">>, "f.pdf")
Finals == {SubUrl, OtherUrl, ReservedUrl, PdfUrl}

Urls == Sources \cup Finals

\* the `domains` argument: None, empty, a.com, b.org
DomainLists == {None, List(<< >>), List(<<<<"a", "com">>>>), List(<<<<"b", "org">>>>)}

\* oauth_dropins.webutil.util.RESERVED_TLDS | LOCAL_TLDS
ReservedTlds == {"corp", "example", "internal", "invalid", "onion", "test", "local", "localhost"}

\* what follow_redirects(url) may answer: the url itself (no redirect, or a failed
\* fetch), or for a redirecting url any final url with its content type
Responses(url) ==
  {[url |-> url, html |-> url # PdfUrl]}
  \cup (IF url \in Sources THEN {[url |-> f, html |-> f # PdfUrl] : f \in Finals} ELSE {})

\* oauth_dropins.webutil.util.domain_from_link(url)
domain_from_link(url) == url.host

\* oauth_dropins.webutil.util.domain_or_parent_in(input, domains): input is one of
\* the domains or ends with "." and one of them
domain_or_parent_in(input, domains) ==
  \E i \in DOMAIN domains :
     LET d == domains[i] IN
     /\ Len(d) <= Len(input)
     /\ SubSeq(input, Len(input) - Len(d) + 1, Len(input)) = d

\* an insertion-ordered dict as a sequence of <<key, value>>
Keys(d) == [i \in DOMAIN d |-> d[i][1]]
Vals(d) == {d[i][2] : i \in DOMAIN d}
Put(d, key, value) ==
  IF \E i \in DOMAIN d : d[i][1] = key
  THEN [i \in DOMAIN d |-> IF d[i][1] = key THEN <<key, value>> ELSE d[i]]
  ELSE Append(d, <<key, value>>)
Lookup(d, key) == LET i == CHOOSE i \in DOMAIN d : d[i][1] = key IN d[i][2]

FetchLimit_all(candidates, max_redirect_fetches) == Len(candidates)

\* candidates[:max_redirect_fetches], line 351: how many candidates are probed
FetchLimit(candidates, max_redirect_fetches) ==
  IF max_redirect_fetches = None THEN Len(candidates)
  ELSE IF max_redirect_fetches.n < Len(candidates) THEN max_redirect_fetches.n
  ELSE Len(candidates)

\* lines 371-372
IsReserved(domain) ==
  Len(domain) < 2 \/ domain[Len(domain)] \in ReservedTlds

Which_none_only(domain, domains) ==
  IF domains = None \/ (Truthy(domains) /\ domain_or_parent_in(domain, domains.l))
  THEN "originals" ELSE "mentions"

\* lines 375-376
Which(domain, domains) ==
  IF ~Truthy(domains) \/ domain_or_parent_in(domain, domains.l)
  THEN "originals" ELSE "mentions"

Classified_no_postpone(args, redirects, which) ==
  LET all == {args.candidates[i] : i \in DOMAIN args.candidates}
               \cup {Keys(redirects)[i] : i \in DOMAIN redirects}
      kept == {url \in all :
                 /\ domain_from_link(url) # << >>
                 /\ args.include_reserved_hosts \/ ~IsReserved(domain_from_link(url))
                 /\ Which(domain_from_link(url), args.domains) = which}
  IN kept \cup {Lookup(redirects, url) :
                  url \in {u \in kept : /\ args.include_redirect_sources
                                        /\ \E i \in DOMAIN redirects : redirects[i][1] = u}}

\* the loop of lines 363-383 over dedupe_urls(candidates + redirects.keys()): the
\* urls it adds to the set `which`
Classified(args, redirects, which) ==
  LET all == {args.candidates[i] : i \in DOMAIN args.candidates}
               \cup {Keys(redirects)[i] : i \in DOMAIN redirects}
      kept == {url \in all :
                 /\ url \notin Vals(redirects)
                 /\ domain_from_link(url) # << >>
                 /\ args.include_reserved_hosts \/ ~IsReserved(domain_from_link(url))
                 /\ Which(domain_from_link(url), args.domains) = which}
  IN kept \cup {Lookup(redirects, url) :
                  url \in {u \in kept : /\ args.include_redirect_sources
                                        /\ \E i \in DOMAIN redirects : redirects[i][1] = u}}

\* the arguments: candidates are distinct, as dedupe_urls leaves them
OpdArgs ==
  {[candidates |-> c, domains |-> d, include_redirect_sources |-> s,
    include_reserved_hosts |-> r, max_redirect_fetches |-> m] :
     c \in {l \in SeqsUpTo(Urls, MaxCandidates) : \A i, j \in DOMAIN l : l[i] = l[j] => i = j},
     d \in DomainLists, s \in BOOLEAN, r \in BOOLEAN,
     m \in {None} \cup {Number(n) : n \in 0..MaxFetches}}

OpdIdle ==
  /\ opdArgs = EmptyDict /\ opdPc = "idle" /\ opdFetched = << >>
  /\ opdRedirects = << >> /\ opdOriginals = {} /\ opdMentions = {}

OpdInit ==
  /\ opdArgs \in OpdArgs /\ opdPc = "probe" /\ opdFetched = << >>
  /\ opdRedirects = << >> /\ opdOriginals = {} /\ opdMentions = {}

\* one turn of the loop of lines 351-356: follow_redirects on the next candidate
\* answers `resolved`
Probe(resolved) ==
  /\ opdPc = "probe"
  /\ Len(opdFetched) < FetchLimit(opdArgs.candidates, opdArgs.max_redirect_fetches)
  /\ LET url == opdArgs.candidates[Len(opdFetched) + 1] IN
       /\ resolved \in Responses(url)
       /\ opdFetched' = Append(opdFetched, [url |-> url, resolved |-> resolved])
       /\ opdRedirects' = IF resolved.url # url /\ resolved.html
                          THEN Put(opdRedirects, resolved.url, url)
                          ELSE opdRedirects
  /\ UNCHANGED <<opdArgs, opdPc, opdOriginals, opdMentions>>

\* lines 358-386, once the loop of line 351 is through
Classify ==
  /\ opdPc = "probe"
  /\ Len(opdFetched) = FetchLimit(opdArgs.candidates, opdArgs.max_redirect_fetches)
  /\ opdOriginals' = Classified(opdArgs, opdRedirects, "originals")
  /\ opdMentions' = Classified(opdArgs, opdRedirects, "mentions")
  /\ opdPc' = "done"
  /\ UNCHANGED <<opdArgs, opdFetched, opdRedirects>>

(***************************************************************************)
(* original_post_discovery, lines 327-346: the candidates of an activity.  *)
(* A raw link is the record of its scheme, host and path; the content is a *)
(* sequence of words: plain text, links, and citations "(DOMAIN PATH)".    *)
(***************************************************************************)
MaxUpstream == 1   \* most upstreamDuplicates of an activity

Raw(scheme, host, path) == [scheme |-> scheme, host |-> host, path |-> path]

EllipsisChar == "~"   \* stands for the one-character ellipsis U+2026

\* str.endswith
EndsWith(str, suffix) ==
  /\ Len(str) >= Len(suffix)
  /\ SubSeq(str, Len(str) - Len(suffix) + 1, Len(str)) = suffix

Keep_three_dots_only(raw) ==
  /\ raw # None
  /\ raw.scheme \in {"http", "https"}
  /\ ~EndsWith(raw.path, "...")

\* the condition of lines 344-346
Keep(raw) ==
  /\ raw # None
  /\ raw.scheme \in {"http", "https"}
  /\ ~EndsWith(raw.path, "...") /\ ~EndsWith(raw.path, EllipsisChar)

\* oauth_dropins.webutil.util.clean_url(url): the url without its utm_ parameters
clean_url(raw) ==
  LET cut == {i \in 1..Len(raw.path) : SubSeq(raw.path, i, Len(raw.path)) = "?utm_source=x"}
  IN IF cut = {} THEN raw
     ELSE Raw(raw.scheme, raw.host, SubSeq(raw.path, 1, (CHOOSE i \in cut : TRUE) - 1))

\* a url as dedupe_urls compares it, whatever its scheme
ToUrl(raw) == Url(raw.host, raw.path)

\* dedupe_urls on urls: the first occurrence of each, in order
RECURSIVE DistinctFrom(_, _)
DistinctFrom(urls, seen) ==
  IF urls = << >> THEN << >>
  ELSE IF Head(urls) \in seen THEN DistinctFrom(Tail(urls), seen)
  ELSE <<Head(urls)>> \o DistinctFrom(Tail(urls), seen \cup {Head(urls)})

\* words of the content
Text == [w |-> "text"]
Link(raw) == [w |-> "link", raw |-> raw]
Cite(domain, path) == [w |-> "cite", domain |-> domain, path |-> path]

\* oauth_dropins.webutil.util.extract_links(content)
extract_links(content) ==
  LET links == SelectSeq(content, LAMBDA word : word.w = "link")
  IN [i \in DOMAIN links |-> links[i].raw]

\* the characters of a dotted name
RECURSIVE DottedLen(_)
DottedLen(labels) ==
  IF labels = << >> THEN 0
  ELSE Len(Head(labels)) + (IF Len(labels) > 1 THEN 1 ELSE 0) + DottedLen(Tail(labels))

\* _PERMASHORTCITATION_RE (line 43) on the content: a citation is found only at
\* the very end, when DOMAIN has a dot followed by two characters or more;
\* lines 339-340 expand it to http://DOMAIN/PATH
permashortcitations(content) ==
  IF content = << >> THEN << >>
  ELSE LET last == content[Len(content)] IN
       IF /\ last.w = "cite"
          /\ \E i \in 1..(Len(last.domain) - 1) :
                DottedLen(SubSeq(last.domain, i + 1, Len(last.domain))) >= 2
          /\ Len(last.path) > 0
       THEN <<Raw("http", last.domain, last.path)>>
       ELSE << >>

\* lines 331-332: the urls of the attachments and tags of an accepted type
TagUrls(tagged) ==
  LET ok == SelectSeq(tagged, LAMBDA t : Get(t, "objectType", NoneStr)
                                           \in {"article", "mention", "note", NoneStr})
  IN [i \in DOMAIN ok |-> Get(ok[i], "url", None)]

\* lines 327-340: the raw links of an activity, in the order they are collected
RawLinks(activity) ==
  LET got == get_object(activity, "object")
      o == IF DOMAIN got # {} THEN got ELSE activity
      content == Get(o, "content", << >>)
  IN TagUrls(Get(o, "attachments", << >>) \o Get(o, "tags", << >>))
     \o extract_links(content)
     \o Get(o, "upstreamDuplicates", << >>)
     \o (IF "targetUrl" \in DOMAIN o THEN <<o.targetUrl>> ELSE << >>)
     \o permashortcitations(content)

\* lines 342-346: the cleaned, de-duplicated candidates
CandidatesOf(activity) ==
  LET kept == SelectSeq(RawLinks(activity), LAMBDA raw : Keep(raw))
  IN DistinctFrom([i \in DOMAIN kept |-> ToUrl(clean_url(kept[i]))], {})

\* raw links: the short link, the link on sub.a.com and the one on b.org
RawShort == Raw("http", <<"t", "co">>, "s")
RawSub == Raw("https", <<"sub", "a", "com">>, "1")
RawOther == Raw("http", <<"b", "org">>, "3")
RawTracked == Raw("http", <<"b", "org">>, "3?utm_source=x")
\* links cut short, and links that are not http(s)
RawDots == Raw("http", <<"b", "org">>, "5...")
RawEllipsis == Raw("https", <<"sub", "a", "com">>, "6" \o EllipsisChar)
RawFtp == Raw("ftp", <<"b", "org">>, "7")
RawBare == Raw("", <<"sub", "a", "com">>, "8")

TagLists ==
  {<< >>,
   <<[objectType |-> "article", url |-> RawDots]>>,
   <<[objectType |-> "person", url |-> RawShort], [objectType |-> "note"]>>,
   <<[url |-> RawBare]>>}

Contents ==
  {<< >>,
   <<Text, Link(RawShort)>>,
   <<Link(RawTracked), Link(RawEllipsis), Cite(<<"c", "net">>, "p")>>,
   <<Text, Cite(<<"c", "net">>, "q...")>>,
   <<Cite(<<"c", "net">>, "p"), Text>>,
   <<Cite(<<"c", "x">>, "p")>>}

HarvestObjects ==
  {[tags |-> t, content |-> c, upstreamDuplicates |-> u] :
     t \in TagLists, c \in Contents,
     u \in SeqsUpTo({RawSub, RawOther, RawFtp}, MaxUpstream)}
  \cup {[attachments |-> t, targetUrl |-> RawSub] : t \in TagLists}

\* the activity is the object itself or carries it as its object
Activities == HarvestObjects \cup {[object |-> Dict(o)] : o \in HarvestObjects}

HarvestArgs ==
  {[activity |-> a, candidates |-> CandidatesOf(a), domains |-> d,
    include_redirect_sources |-> s, include_reserved_hosts |-> r,
    max_redirect_fetches |-> m] :
     a \in Activities, d \in {None, List(<<<<"a", "com">>>>)},
     s \in BOOLEAN, r \in BOOLEAN, m \in {None, Number(1)}}

HarvestInit ==
  /\ opdArgs \in HarvestArgs /\ opdPc = "probe" /\ opdFetched = << >>
  /\ opdRedirects = << >> /\ opdOriginals = {} /\ opdMentions = {}

(***************************************************************************)
(* prefix_urls                                                             *)
(***************************************************************************)
MaxPrefixCalls == 2   \* most calls of prefix_urls on one activity

PrefixObj_always(o, prefix) ==
  IF o.k # "dict" THEN [ok |-> FALSE, v |-> o]
  ELSE LET url == Get(o.d, "url", None) IN
       IF Truthy(url)
       THEN [ok |-> TRUE, v |-> Dict(With(o.d, "url", Str(prefix \o url.s)))]
       ELSE [ok |-> TRUE, v |-> o]

\* lines 415-419 on one value of the field; obj.get fails on a string
PrefixObj(o, prefix) ==
  IF o.k # "dict" THEN [ok |-> FALSE, v |-> o]
  ELSE LET url == Get(o.d, "url", None) IN
       IF Truthy(url) /\ ~StartsWith(url.s, prefix)
       THEN [ok |-> TRUE, v |-> Dict(With(o.d, "url", Str(prefix \o url.s)))]
       ELSE [ok |-> TRUE, v |-> o]

\* lines 414-419 on one element: the loop over util.get_list(elem, field), up to
\* the first value it fails on
PrefixField(elem, field, prefix) ==
  LET val == Get(elem, field, List(<< >>)) IN
  IF val.k = "list"
  THEN LET bad == {i \in DOMAIN val.l : val.l[i].k # "dict"}
           done(i) == bad = {} \/ \A j \in bad : i < j
       IN [ok |-> bad = {},
           d |-> IF val.l = << >> THEN elem
                 ELSE With(elem, field,
                           List([i \in DOMAIN val.l |->
                                   IF done(i) THEN PrefixObj(val.l[i], prefix).v
                                   ELSE val.l[i]]))]
  ELSE IF ~Truthy(val) THEN [ok |-> TRUE, d |-> elem]
  ELSE LET r == PrefixObj(val, prefix) IN [ok |-> r.ok, d |-> With(elem, field, r.v)]

RECURSIVE prefix_urls(_, _, _)

\* line 421 on an element whose own values are done: the recursive call
AsElem(r) == [ok |-> r.ok, v |-> Dict(r.a)]

Inside(f, field, prefix) ==
  IF ~f.ok THEN [ok |-> FALSE, v |-> Dict(f.d)]
  ELSE AsElem(prefix_urls(f.d, field, prefix))

\* lines 413-421 on an element other than the activity itself
PrefixElem(elem, field, prefix) ==
  IF ~Truthy(elem) THEN [ok |-> TRUE, v |-> elem]
  ELSE IF elem.k # "dict" THEN [ok |-> FALSE, v |-> elem]
  ELSE Inside(PrefixField(elem.d, field, prefix), field, prefix)

\* the same on the elements of a list, in order, up to the first failure
RECURSIVE PrefixList(_, _, _)

Cons(v, t) == [ok |-> t.ok, l |-> <<v>> \o t.l]

ListAfter(h, rest, field, prefix) ==
  IF ~h.ok THEN [ok |-> FALSE, l |-> <<h.v>> \o rest]
  ELSE Cons(h.v, PrefixList(rest, field, prefix))

PrefixList(l, field, prefix) ==
  IF l = << >> THEN [ok |-> TRUE, l |-> << >>]
  ELSE ListAfter(PrefixElem(Head(l), field, prefix), Tail(l), field, prefix)

\* the activity with the element or the list of a key replaced
SetElem(d, key, e) == [ok |-> e.ok, d |-> With(d, key, e.v)]

SetList(d, key, e) == [ok |-> e.ok, d |-> With(d, key, List(e.l))]

SetItems(d, e) ==
  [ok |-> e.ok, d |-> With(d, "replies", Dict(With(d.replies.d, "items", List(e.l))))]

\* a.get(key), for object, author and actor
ThenElem(r, key, field, prefix) ==
  IF ~r.ok \/ key \notin DOMAIN r.d THEN r
  ELSE SetElem(r.d, key, PrefixElem(r.d[key], field, prefix))

\* a.get(key, []), for attachments and tags
ThenList(r, key, field, prefix) ==
  IF ~r.ok \/ key \notin DOMAIN r.d THEN r
  ELSE SetList(r.d, key, PrefixList(r.d[key].l, field, prefix))

\* a.get('replies', {}).get('items', [])
ThenItems(r, field, prefix) ==
  IF ~r.ok \/ "replies" \notin DOMAIN r.d \/ "items" \notin DOMAIN r.d.replies.d THEN r
  ELSE SetItems(r.d, PrefixList(r.d.replies.d.items.l, field, prefix))

AsActivity(r) == [ok |-> r.ok, a |-> r.d]

\* prefix_urls(activity, field, prefix), lines 389-421: [ok, a], a the activity
\* when the call returns or raises
prefix_urls(a, field, prefix) ==
  LET own == PrefixField(a, field, prefix)
      object == ThenElem(own, "object", field, prefix)
      author == ThenElem(object, "author", field, prefix)
      actor == ThenElem(author, "actor", field, prefix)
      items == ThenItems(actor, field, prefix)
      attachments == ThenList(items, "attachments", field, prefix)
      tags == ThenList(attachments, "tags", field, prefix)
  IN AsActivity(tags)

\* the prefix and the urls of the inputs
Proxy == <<"p", "/">>
PlainUrl == <<"u">>
HalfUrl == <<"p">>    \* starts like the prefix without starting with it

\* the values of an image or stream field: missing, a record with a url, with a
\* url that has the prefix already, a list of records, a bare string
Media ==
  {None,
   Dict([url |-> Str(PlainUrl)]),
   Dict([url |-> Str(Proxy \o PlainUrl)]),
   List(<<Dict([url |-> Str(HalfUrl), width |-> Str(<<"9">>)]), Dict([width |-> Str(<<"9">>)])>>),
   Str(PlainUrl)}

Person(image) ==
  With([displayName |-> Str(<<"n">>), url |-> Str(PlainUrl),
        stream |-> Dict([url |-> Str(PlainUrl)])], "image", image)

PrefixActivities ==
  {With([verb |-> Str(<<"v">>),
         actor |-> Dict(Person(Dict([url |-> Str(PlainUrl)]))),
         object |-> Dict([content |-> Str(<<"c">>),
                          author |-> Dict(Person(author)),
                          attachments |-> List(<<Dict(Person(None))>>)]),
         replies |-> Dict([items |-> List(<<Dict(Person(item)), Dict(Person(None))>>)]),
         tags |-> List(<<Dict(Person(tag))>>)], "image", own) :
     own \in Media, author \in Media, item \in Media, tag \in Media}
  \cup {[object |-> Str(<<"o">>), image |-> Dict([url |-> Str(PlainUrl)]),
         stream |-> Dict([url |-> Str(PlainUrl)])]}

PrefixIdle ==
  /\ puActivity = EmptyDict /\ puInput = EmptyDict /\ puPrev = EmptyDict
  /\ puField = "" /\ puCalls = 0 /\ puOutcome = "idle"

PrefixInit ==
  /\ puActivity \in PrefixActivities /\ puInput = puActivity /\ puPrev = puActivity
  /\ puField \in {"image", "stream"} /\ puCalls = 0 /\ puOutcome = "idle"

PrefixUrls ==
  /\ puCalls < MaxPrefixCalls /\ puOutcome # "AttributeError"
  /\ \E r \in {prefix_urls(puActivity, puField, Proxy)} :
       /\ puActivity' = r.a
       /\ puOutcome' = IF r.ok THEN "ok" ELSE "AttributeError"
  /\ puPrev' = puActivity
  /\ puCalls' = puCalls + 1
  /\ UNCHANGED <<puInput, puField>>

(***************************************************************************)
(* Meetup.create, Meetup.preview_create (meetup.py)                        *)
(***************************************************************************)
\* a Python str, held as a TLA+ string
PyStr(s) == [k |-> "pystr", s |-> s]

\* Python truthiness of the values of a Meetup activity
IsTrue(v) ==
  CASE v.k = "none"  -> FALSE
    [] v.k = "pystr" -> v.s # ""
    [] v.k = "dict"  -> DOMAIN v.d # {}
    [] v.k = "list"  -> v.l # << >>

Char(s, i) == SubSeq(s, i, i)

API_BASE == "https://api.meetup.com"

AccessToken == "token-here"

NoEventUrl == [match |-> FALSE, urlname |-> "", event_id |-> ""]

\* EVENT_URL_RE.match(url), line 18: groups 2 and 3 of
\* https://(www\.|)meetup.com/([^/]+)/events/([0-9]+)/?$ ; the dot of meetup.com
\* is not escaped and stands for any character
EVENT_URL_RE(url) ==
  IF ~StartsWith(url, "https://") THEN NoEventUrl
  ELSE LET r1 == Drop(url, 8)
           r2 == IF StartsWith(r1, "www.") THEN Drop(r1, 4) ELSE r1
       IN IF ~(Len(r2) >= 11 /\ SubSeq(r2, 1, 6) = "meetup" /\ SubSeq(r2, 8, 11) = "com/")
          THEN NoEventUrl
          ELSE LET r3 == Drop(r2, 11)
                   slashes == {i \in 1..Len(r3) : Char(r3, i) = "/"}
               IN IF slashes = {} THEN NoEventUrl
                  ELSE LET k == CHOOSE i \in slashes : \A j \in slashes : i <= j
                           r4 == Drop(r3, k - 1)
                       IN IF k = 1 \/ ~StartsWith(r4, "/events/") THEN NoEventUrl
                          ELSE LET r5 == Drop(r4, 8)
                                   others == {i \in 1..Len(r5) : Char(r5, i) \notin Digits}
                                   n == IF others = {} THEN Len(r5)
                                        ELSE (CHOOSE i \in others : \A j \in others : i <= j) - 1
                               IN IF n = 0 \/ Drop(r5, n) \notin {"", "/"} THEN NoEventUrl
                                  ELSE [match |-> TRUE, urlname |-> SubSeq(r3, 1, k - 1),
                                        event_id |-> Take(r5, n)]

\* the host of an https or http URL, or "" without one
HostOf(url) ==
  LET rest == IF StartsWith(url, "https://") THEN Drop(url, 8)
              ELSE IF StartsWith(url, "http://") THEN Drop(url, 7) ELSE ""
      slashes == {i \in 1..Len(rest) : Char(rest, i) = "/"}
  IN IF slashes = {} THEN rest
     ELSE Take(rest, (CHOOSE i \in slashes : \A j \in slashes : i <= j) - 1)

\* URL_CANONICALIZER(url), lines 25-27, of oauth_dropins.webutil.util: a URL that
\* EVENT_URL_RE approves is returned as it is; one on another domain gives None;
\* any other is put on https and requested, and gives None when the request fails
RECURSIVE URL_CANONICALIZER(_, _)
URL_CANONICALIZER(url, net) ==
  IF EVENT_URL_RE(url).match THEN PyStr(url)
  ELSE LET host == HostOf(url) IN
       IF host = "" \/ ~(host = "meetup.com" \/
                         (Len(host) > 11 /\ Drop(host, Len(host) - 11) = ".meetup.com"))
       THEN None
       ELSE IF StartsWith(url, "http://")
       THEN URL_CANONICALIZER("https://" \o Drop(url, 7), net)
       ELSE IF net = "error" THEN None ELSE PyStr(url)

\* urllib.parse.quote_plus(s), on the characters of the urls of the model
RECURSIVE quote_plus(_)
quote_plus(s) ==
  IF s = "" THEN ""
  ELSE LET c == Char(s, 1) IN
       (CASE c = ":" -> "%3A" [] c = "/" -> "%2F" [] c = " " -> "+" [] OTHER -> c)
         \o quote_plus(Drop(s, 1))

\* source.creation_result(content, description, abort, error_plain, error_html)
creation_result(content, description, abort, error_plain, error_html) ==
  [content |-> content, description |-> description, abort |-> abort,
   error_plain |-> error_plain, error_html |-> error_html]

\* Meetup.return_error(msg), lines 108-109
return_error(msg) == creation_result(None, None, TRUE, PyStr(msg), PyStr(msg))

\* the request of Meetup.post_rsvp(urlname, event_id, response), lines 39-52
post_rsvp(urlname, event_id, response) ==
  [url |-> API_BASE \o "/" \o urlname \o "/events/" \o event_id \o "/rsvps",
   data |-> "response=" \o response,
   authorization |-> "Bearer " \o AccessToken]

Returned(result) == [outcome |-> "returned", result |-> result, posts |-> << >>]

Raised(exception) == [outcome |-> exception, result |-> None, posts |-> << >>]

\* the name of a verb in a message, as %(verb)s formats it
VerbName(verb) == IF verb.k = "pystr" THEN verb.s ELSE "None"

\* Meetup._create(obj, preview), lines 68-106, once the verb gave a response
CreateRsvp(o, preview, net, verb, response) ==
  LET url_containers == Get(o, "object", None) IN
  IF ~IsTrue(url_containers) THEN Returned(return_error("missing an in-reply-to"))
  ELSE IF url_containers.k = "dict" THEN Raised("KeyError")
  ELSE IF url_containers.k = "pystr" THEN Returned(return_error("missing an in-reply-to"))
  ELSE LET first == url_containers.l[1] IN
       IF first.k # "dict" \/ "url" \notin DOMAIN first.d
       THEN Returned(return_error("missing an in-reply-to"))
       ELSE IF ~IsTrue(first.d.url) THEN Returned(return_error("missing an in-reply-to"))
       ELSE LET event_url == URL_CANONICALIZER(first.d.url.s, net) IN
            IF ~IsTrue(event_url) THEN Returned(return_error("Invalid Meetup.com event URL"))
            ELSE LET parsed_url_part == EVENT_URL_RE(event_url.s) IN
                 IF ~parsed_url_part.match
                 THEN Returned(return_error("Invalid Meetup.com event URL"))
                 ELSE IF preview = "True"
                 THEN Returned(creation_result(None,
                        PyStr("<span class=\"verb\">RSVP " \o Drop(verb.s, 5)
                              \o "</span> to <a href=\"" \o event_url.s
                              \o "\">this event</a>."),
                        FALSE, None, None))
                 ELSE LET actor == Get(o, "actor", None) IN
                      IF actor.k # "dict" \/ "url" \notin DOMAIN actor.d
                      THEN Raised("KeyError")
                      ELSE [outcome |-> "returned",
                            result |-> creation_result(
                               Dict([url |-> PyStr(event_url.s \o "#rsvp-by-"
                                                   \o quote_plus(actor.d.url.s)),
                                     type |-> PyStr("rsvp")]),
                               None, FALSE, None, None),
                            posts |-> <<post_rsvp(parsed_url_part.urlname,
                                                  parsed_url_part.event_id, response)>>]

ResponseOf_maybe(verb) ==
  IF verb = PyStr("rsvp-yes") THEN PyStr("yes")
  ELSE IF verb = PyStr("rsvp-no") THEN PyStr("no")
  ELSE IF verb = PyStr("rsvp-maybe") THEN PyStr("maybe")
  ELSE None

\* the response of a verb, lines 57-66: None for a verb that has none
ResponseOf(verb) ==
  IF verb = PyStr("rsvp-yes") THEN PyStr("yes")
  ELSE IF verb = PyStr("rsvp-no") THEN PyStr("no")
  ELSE None

\* Meetup._create(obj, preview), lines 57-106, after the check of preview
CreateVerb(o, preview, net) ==
  LET verb == Get(o, "verb", None)
      response == ResponseOf(verb)
  IN IF response # None THEN CreateRsvp(o, preview, net, verb, response.s)
     ELSE IF verb \in {PyStr("rsvp-maybe"), PyStr("rsvp-interested")}
     THEN Returned(return_error("Meetup.com does not support " \o VerbName(verb)))
     ELSE Returned(return_error("Meetup.com syndication does not support " \o VerbName(verb)))

_create_unchecked(o, preview, net) == CreateVerb(o, preview, net)

\* Meetup._create(obj, preview), lines 54-106: [outcome, result, posts]
_create(o, preview, net) ==
  IF preview \notin {"False", "True"}
  THEN Returned(return_error("Invalid Preview parameter, must be True or False"))
  ELSE CreateVerb(o, preview, net)

\* the preview argument of the three ways in, lines 33-37 and 54
PreviewOf(entry, preview) ==
  CASE entry = "create" -> "False"
    [] entry = "preview_create" -> "True"
    [] entry = "_create" -> preview

\* event URLs and other URLs of an in-reply-to
MeetupEventUrl == "https://meetup.com/g/events/1"
WwwEventUrl == "https://www.meetup.com/g/events/1"
SlashEventUrl == "https://meetup.com/g/events/1/"
PlainEventUrl == "http://meetup.com/g/events/1"
GroupUrl == "https://meetup.com/g/"
EventsUrl == "https://meetup.com/g/events"
EventsSlashUrl == "https://meetup.com/g/events/"
NoGroupUrl == "https://meetup.com//events/1"
ElsewhereUrl == "https://www.b.org/e/g-1/x"
LookalikeUrl == "https://meetupxcom/g/events/1"

EventUrls == {MeetupEventUrl, WwwEventUrl, SlashEventUrl}

InvalidUrls == {GroupUrl, EventsUrl, EventsSlashUrl, NoGroupUrl, ElsewhereUrl}

ReplyUrls == EventUrls \cup InvalidUrls \cup {PlainEventUrl, LookalikeUrl}

MemberId == "7"

MemberUrl == "https://www.meetup.com/members/7/"

MeetupActor ==
  Dict([objectType |-> PyStr("person"), numeric_id |-> PyStr(MemberId),
        url |-> PyStr(MemberUrl)])

Verbs ==
  {PyStr("rsvp-yes"), PyStr("rsvp-no"), PyStr("rsvp-maybe"), PyStr("rsvp-interested"),
   PyStr("post"), None}

\* the values of inReplyTo and of object: missing, a url, a list of records
InReplyTos == {None} \cup {PyStr(u) : u \in ReplyUrls}

Objects ==
  {None, List(<< >>), List(<<Dict([id |-> PyStr("x")])>>),
   List(<<Dict([url |-> PyStr("")])>>)}
    \cup {List(<<Dict([url |-> PyStr(u)])>>) : u \in ReplyUrls}
    \cup {Dict([url |-> PyStr(MeetupEventUrl)]), PyStr(MeetupEventUrl)}

MeetupActivities ==
  {With(With(With(With([objectType |-> PyStr("activity")], "verb", verb),
                  "inReplyTo", inReplyTo), "object", object), "actor", actor) :
     verb \in Verbs, inReplyTo \in InReplyTos, object \in Objects,
     actor \in {MeetupActor, Dict([objectType |-> PyStr("person")])}}

MeetupIdle ==
  /\ muObj = EmptyDict /\ muEntry = "" /\ muPreview = "" /\ muNet = ""
  /\ muPosts = << >> /\ muResult = None /\ muOutcome = "idle"

MeetupInit ==
  /\ muObj \in MeetupActivities
  /\ muEntry \in {"create", "preview_create", "_create"}
  /\ muPreview \in IF muEntry = "_create" THEN {"None", "True", "False"} ELSE {""}
  /\ muNet \in {"same", "error"}
  /\ muPosts = << >> /\ muResult = None /\ muOutcome = "idle"

Create ==
  /\ muOutcome = "idle"
  /\ LET r == _create(muObj, PreviewOf(muEntry, muPreview), muNet) IN
       /\ muOutcome' = r.outcome
       /\ muResult' = r.result
       /\ muPosts' = muPosts \o r.posts
  /\ UNCHANGED <<muObj, muEntry, muPreview, muNet>>

(***************************************************************************)
(* GitHub.create, GitHub.preview_create (github.py)                        *)
(***************************************************************************)
MaxTags == 2   \* most tags of a post

ThumbsUp == "(thumbs up)"    \* stands for the emoji, a key of REACTIONS_GRAPHQL

REACTIONS_GRAPHQL == {ThumbsUp}

\* s.strip('/')
RECURSIVE StripSlashes(_)
StripSlashes(s) ==
  IF s = "" THEN ""
  ELSE IF Char(s, 1) = "/" THEN StripSlashes(Drop(s, 1))
  ELSE IF Char(s, Len(s)) = "/" THEN StripSlashes(Take(s, Len(s) - 1))
  ELSE s

\* s.split(sep), sep one character
RECURSIVE SplitOn(_, _)
SplitOn(s, sep) ==
  LET at == {i \in 1..Len(s) : Char(s, i) = sep} IN
  IF at = {} THEN <<s>>
  ELSE LET k == CHOOSE i \in at : \A j \in at : i <= j IN
       <<Take(s, k - 1)>> \o SplitOn(Drop(s, k), sep)

\* urllib.parse.urlparse(url), path and fragment of an https URL
urlparse(url) ==
  LET parts == SplitOn(url, "#")
      rest == Drop(parts[1], 8)
      slashes == {i \in 1..Len(rest) : Char(rest, i) = "/"}
  IN [path |-> IF slashes = {} THEN ""
               ELSE Drop(rest, (CHOOSE i \in slashes : \A j \in slashes : i <= j) - 1),
      fragment |-> IF Len(parts) = 1 THEN "" ELSE Drop(url, Len(parts[1]) + 1)]

\* re.match(r'^issuecomment-([0-9]+)$', fragment): group 1, or "" without a match
IssueComment(fragment) ==
  IF StartsWith(fragment, "issuecomment-") /\ Len(fragment) > 13
     /\ \A i \in 14..Len(fragment) : Char(fragment, i) \in Digits
  THEN Drop(fragment, 13) ELSE ""

\* the calls of GitHub.rest and GitHub.graphql that _create makes
Reads == {"GET comment", "query issueOrPullRequest", "POST markdown",
          "query repository", "query labels"}

Writes == {"POST comment reaction", "POST reaction", "POST comment",
           "mutation addStar", "POST labels", "POST issue"}

\* the calls of a list that are issued when one of them may fail, lines 251-301:
\* a failing call has been sent when raise_for_status or json_loads raises
Issue(calls, net) ==
  LET failed == {i \in DOMAIN calls : calls[i] = net.failing} IN
  IF failed = {} THEN [calls |-> calls, error |-> "none"]
  ELSE [calls |-> SubSeq(calls, 1, CHOOSE i \in failed : \A j \in failed : i <= j),
        error |-> net.error]

\* source.creation_result(...), with the messages of error_plain and error_html
\* as one field
Result(content, description, abort, error) ==
  [content |-> content, description |-> description, abort |-> abort, error |-> error]

Error(abort, error) ==
  [outcome |-> "returned", result |-> Result("", "", abort, error), calls |-> << >>]

\* a return after the calls, or the exception of the call that failed
After(calls, net, result) ==
  LET sent == Issue(calls, net) IN
  IF sent.error = "none"
  THEN [outcome |-> "returned", result |-> result, calls |-> sent.calls]
  ELSE [outcome |-> sent.error, result |-> Result("", "", FALSE, ""), calls |-> sent.calls]

\* lines 616-625: the comment POST, a ValueError of it returned as an error
CreateComment(net) ==
  LET r == After(<<"POST comment">>, net, Result("comment", "", FALSE, "")) IN
  IF r.outcome = "ValueError"
  THEN [outcome |-> "returned", result |-> Result("", "", TRUE, "ValueError"),
        calls |-> r.calls]
  ELSE r

RepoPath(path) == Len(path) = 2 \/ (Len(path) = 3 /\ path[3] = "issues")

IssuePath(path) == Len(path) = 4 /\ path[3] \in {"issues", "pull"}

\* lines 562-625, type comment
Comment(path, comment_id, content, preview, net) ==
  IF ~IssuePath(path)
  THEN Error(TRUE, "GitHub comment requires in-reply-to issue or PR URL.")
  ELSE LET is_reaction == content \in REACTIONS_GRAPHQL IN
       IF preview
       THEN After(<<IF comment_id # "" THEN "GET comment" ELSE "query issueOrPullRequest">>
                    \o (IF is_reaction THEN << >> ELSE <<"POST markdown">>),
                  net,
                  Result(IF is_reaction THEN "" ELSE "markdown",
                         IF is_reaction THEN "react" ELSE "comment", FALSE, ""))
       ELSE IF is_reaction
       THEN After(<<IF comment_id # "" THEN "POST comment reaction" ELSE "POST reaction">>,
                  net, Result("react", "", FALSE, ""))
       ELSE CreateComment(net)

\* lines 627-643, type like
Like(path, preview, net) ==
  IF ~RepoPath(path) THEN Error(TRUE, "GitHub like requires in-reply-to repo URL.")
  ELSE IF preview THEN After(<< >>, net, Result("", "star", FALSE, ""))
  ELSE After(<<"query repository", "mutation addStar">>, net,
             Result("stargazers", "", FALSE, ""))

\* lines 645-675, type tag
Tag(path, tags, existing, preview, net) ==
  IF ~IssuePath(path)
  THEN Error(TRUE, "GitHub tag post requires tag-of issue or PR URL.")
  ELSE IF tags = {} THEN Error(TRUE, "No tags found in tag post!")
  ELSE LET labels == tags \cap existing
           existing_labels == Issue(<<"query labels">>, net)
       IN IF existing_labels.error # "none"
          THEN After(<<"query labels">>, net, Result("", "", FALSE, ""))
          ELSE IF labels = {}
          THEN [outcome |-> "returned",
                result |-> Result("", "", TRUE, "No tags matched existing labels"),
                calls |-> <<"query labels">>]
          ELSE IF preview
          THEN After(<<"query labels">>, net, Result("", "add label", FALSE, ""))
          ELSE After(<<"query labels", "POST labels">>, net, Result("tag", "", FALSE, ""))

\* lines 677-705, any other type: a new issue
NewIssue(path, preview, net) ==
  IF ~RepoPath(path) THEN Error(TRUE, "New GitHub issue requires in-reply-to repo URL")
  ELSE IF preview
  THEN After(<<"query labels", "POST markdown">>, net,
             Result("markdown", "create a new issue", FALSE, ""))
  ELSE After(<<"query labels", "POST issue">>, net, Result("issue", "", FALSE, ""))

Publishable == {"issue", "comment", "activity", "note", "article", "like", "tag"}

\* GitHub._create, lines 499-709: [outcome, result, calls]
GitHub_create(type, base_url, content, tags, existing, preview, net) ==
  IF type # "" /\ type \notin Publishable
  THEN Error(FALSE, "Cannot publish " \o type \o " to GitHub")
  ELSE IF base_url = ""
  THEN Error(TRUE, "You need an in-reply-to GitHub repo, issue, PR, or comment URL.")
  ELSE LET parsed == urlparse(base_url)
           path == SplitOn(StripSlashes(parsed.path), "/")
           comment_id == IssueComment(parsed.fragment)
       IN IF Len(path) < 2
          THEN [outcome |-> "ValueError", result |-> Result("", "", FALSE, ""),
                calls |-> << >>]
          ELSE IF comment_id = "" /\ parsed.fragment # ""
          THEN Error(TRUE, "Please remove the fragment #" \o parsed.fragment
                             \o " from your in-reply-to URL.")
          ELSE CASE type = "comment" -> Comment(path, comment_id, content, preview, net)
                 [] type = "like" -> Like(path, preview, net)
                 [] type = "tag" -> Tag(path, tags, existing, preview, net)
                 [] OTHER -> NewIssue(path, preview, net)

\* the arguments of the model
Types == {"", "issue", "comment", "note", "like", "tag", "share"}

RepoUrl == "https://github.com/o/r"

BaseUrls ==
  {"", "https://github.com/o", RepoUrl, RepoUrl \o "/issues", RepoUrl \o "/issues/1",
   RepoUrl \o "/pull/1/", RepoUrl \o "/issues/1#issuecomment-2",
   RepoUrl \o "/issues/1#x", RepoUrl \o "#issuecomment-2"}

TagNames == {"bug", "new"}

Nets ==
  {[failing |-> "", error |-> "none"]}
    \cup [failing : Reads \cup Writes, error : {"HTTPError", "ValueError"}]

GitHubIdle ==
  /\ ghType = "" /\ ghBaseUrl = "" /\ ghContent = "" /\ ghTags = {} /\ ghLabels = {}
  /\ ghPreview = FALSE /\ ghNet = [failing |-> "", error |-> "none"]
  /\ ghCalls = << >> /\ ghResult = Result("", "", FALSE, "") /\ ghOutcome = "idle"

GitHubInit ==
  /\ ghType \in Types /\ ghBaseUrl \in BaseUrls /\ ghContent \in {"hi", ThumbsUp}
  /\ ghTags \in {t \in SUBSET TagNames : Cardinality(t) <= MaxTags}
  /\ ghLabels \in {{}, {"bug"}}
  /\ ghPreview \in BOOLEAN /\ ghNet \in Nets
  /\ ghCalls = << >> /\ ghResult = Result("", "", FALSE, "") /\ ghOutcome = "idle"

\* GitHub.create (preview False) and GitHub.preview_create (preview True)
CreateOnGitHub ==
  /\ ghOutcome = "idle"
  /\ LET r == GitHub_create(ghType, ghBaseUrl, ghContent, ghTags, ghLabels, ghPreview, ghNet) IN
       /\ ghOutcome' = r.outcome
       /\ ghResult' = r.result
       /\ ghCalls' = r.calls
  /\ UNCHANGED <<ghType, ghBaseUrl, ghContent, ghTags, ghLabels, ghPreview, ghNet>>

(***************************************************************************)
(* Specifications, one per component                                       *)
(***************************************************************************)
PublicNext == IsPublic /\ UNCHANGED <<mergeVars, rsvpVars, changeVars, appendVars, opdVars, prefixVars, meetupVars, githubVars>>

InitPublic == PublicInit /\ MergeIdle /\ RsvpIdle /\ ChangeIdle /\ AppendIdle /\ OpdIdle /\ PrefixIdle /\ MeetupIdle /\ GitHubIdle

SpecPublic == InitPublic /\ [][PublicNext]_vars

MergeNext ==
  \E new \in SeqsUpTo(MergeItems, MaxNew) :
     MergeById(new) /\ UNCHANGED <<publicVars, rsvpVars, changeVars, appendVars, opdVars, prefixVars, meetupVars, githubVars>>

InitMerge == PublicIdle /\ MergeInit /\ RsvpIdle /\ ChangeIdle /\ AppendIdle /\ OpdIdle /\ PrefixIdle /\ MeetupIdle /\ GitHubIdle

SpecMerge == InitMerge /\ [][MergeNext]_vars

RsvpNext ==
  \/ \E n \in 0..(MaxAdded - Len(added)) : \E rsvps \in [1..n -> RsvpInputs] :
        AddRsvps(rsvps) /\ UNCHANGED <<publicVars, mergeVars, changeVars, appendVars, opdVars, prefixVars, meetupVars, githubVars>>
  \/ GetRsvps /\ UNCHANGED <<publicVars, mergeVars, changeVars, appendVars, opdVars, prefixVars, meetupVars, githubVars>>

InitRsvp == PublicIdle /\ MergeIdle /\ RsvpInit /\ ChangeIdle /\ AppendIdle /\ OpdIdle /\ PrefixIdle /\ MeetupIdle /\ GitHubIdle

SpecRsvp == InitRsvp /\ [][RsvpNext]_vars

ChangeNext ==
  \/ \E field \in RevisedFields : \E value \in NewValues(field) :
        ReviseActivity(field, value) /\ UNCHANGED <<publicVars, mergeVars, rsvpVars, appendVars, opdVars, prefixVars, meetupVars, githubVars>>
  \/ \E field \in RevisedFields : \E value \in NewValues(field) :
        ReviseObject(field, value) /\ UNCHANGED <<publicVars, mergeVars, rsvpVars, appendVars, opdVars, prefixVars, meetupVars, githubVars>>
  \/ ActivityChanged /\ UNCHANGED <<publicVars, mergeVars, rsvpVars, appendVars, opdVars, prefixVars, meetupVars, githubVars>>

InitChange == PublicIdle /\ MergeIdle /\ RsvpIdle /\ ChangeInit /\ AppendIdle /\ OpdIdle /\ PrefixIdle /\ MeetupIdle /\ GitHubIdle

SpecChange == InitChange /\ [][ChangeNext]_vars

AppendNext ==
  AppendInReplyTo /\ UNCHANGED <<publicVars, mergeVars, rsvpVars, changeVars, opdVars, prefixVars, meetupVars, githubVars>>

InitAppend == PublicIdle /\ MergeIdle /\ RsvpIdle /\ ChangeIdle /\ AppendInit /\ OpdIdle /\ PrefixIdle /\ MeetupIdle /\ GitHubIdle

SpecAppend == InitAppend /\ [][AppendNext]_vars

OpdNext ==
  \/ \E resolved \in UNION {Responses(opdArgs.candidates[i]) : i \in DOMAIN opdArgs.candidates} :
        Probe(resolved)
        /\ UNCHANGED <<publicVars, mergeVars, rsvpVars, changeVars, appendVars, prefixVars, meetupVars, githubVars>>
  \/ Classify /\ UNCHANGED <<publicVars, mergeVars, rsvpVars, changeVars, appendVars, prefixVars, meetupVars, githubVars>>

InitOpd ==
  PublicIdle /\ MergeIdle /\ RsvpIdle /\ ChangeIdle /\ AppendIdle /\ OpdInit /\ PrefixIdle /\ MeetupIdle /\ GitHubIdle

SpecOpd == InitOpd /\ [][OpdNext]_vars

InitHarvest ==
  PublicIdle /\ MergeIdle /\ RsvpIdle /\ ChangeIdle /\ AppendIdle /\ HarvestInit /\ PrefixIdle /\ MeetupIdle /\ GitHubIdle

SpecHarvest == InitHarvest /\ [][OpdNext]_vars

PrefixNext ==
  PrefixUrls /\ UNCHANGED <<publicVars, mergeVars, rsvpVars, changeVars, appendVars, opdVars, meetupVars, githubVars>>

InitPrefix ==
  PublicIdle /\ MergeIdle /\ RsvpIdle /\ ChangeIdle /\ AppendIdle /\ OpdIdle /\ PrefixInit /\ MeetupIdle /\ GitHubIdle

SpecPrefix == InitPrefix /\ [][PrefixNext]_vars

MeetupNext ==
  Create /\ UNCHANGED <<publicVars, mergeVars, rsvpVars, changeVars, appendVars, opdVars, prefixVars, githubVars>>

InitMeetup ==
  PublicIdle /\ MergeIdle /\ RsvpIdle /\ ChangeIdle /\ AppendIdle /\ OpdIdle /\ PrefixIdle /\ MeetupInit /\ GitHubIdle

SpecMeetup == InitMeetup /\ [][MeetupNext]_vars

GitHubNext ==
  CreateOnGitHub /\ UNCHANGED <<publicVars, mergeVars, rsvpVars, changeVars, appendVars, opdVars, prefixVars, meetupVars>>

InitGitHub ==
  PublicIdle /\ MergeIdle /\ RsvpIdle /\ ChangeIdle /\ AppendIdle /\ OpdIdle /\ PrefixIdle /\ MeetupIdle /\ GitHubInit

SpecGitHub == InitGitHub /\ [][GitHubNext]_vars

(***************************************************************************)
(* Properties of is_public (SpecPublic)                                    *)
(***************************************************************************)
PublicDone == pubResult \in {"True", "False", "None"}

AliasesIn(to) == {to[i].alias : i \in {j \in DOMAIN to : "alias" \in DOMAIN to[j]}}
ObjectTypesIn(to) == {to[i].objectType : i \in {j \in DOMAIN to : "objectType" \in DOMAIN to[j]}}

\* C1: with `to` the effective audience list, is_public is True if some entry has
\* alias @public or @unlisted; otherwise None if some entry has objectType unknown;
\* otherwise False if some entry has a non-null alias; otherwise True.  A null alias
\* is one that trim_nulls drops: None or the empty string.
C1_Precedence ==
  PublicDone =>
    LET to == AudienceOf(obj) IN
    pubResult =
      IF AliasesIn(to) \cap {"@public", "@unlisted"} # {} THEN "True"
      ELSE IF "unknown" \in ObjectTypesIn(to) THEN "None"
      ELSE IF AliasesIn(to) \ {NoneStr, ""} # {} THEN "False"
      ELSE "True"

\* C1 witness: a private alias and an entry of unknown type together give None
C1_Witness ==
  /\ pubResult = "None"
  /\ "@private" \in AliasesIn(AudienceOf(obj))
  /\ Len(AudienceOf(obj)) = 2

WithObject(o, ov) == [key \in DOMAIN o \cup {"object"} |-> IF key = "object" THEN ov ELSE o[key]]

\* the result does not depend on the `object` field
NestedHasNoInfluence ==
  /\ \A ov \in ObjectValues : is_public(WithObject(obj, ov)) = pubResult
  /\ is_public([to |-> obj.to]) = pubResult

\* C2 as stated: whenever obj carries a `to` field, an empty list included, the
\* `to` of the nested object has no influence on the result
C2_Original == (PublicDone /\ "to" \in DOMAIN obj) => NestedHasNoInfluence

\* C2 amended: is_public falls back to the nested object's audience when obj has no
\* `to` field or its `to` is empty; whenever obj carries a non-empty `to`, the `to`
\* of the nested object has no influence on the result
C2_Amended ==
  PublicDone =>
    IF "to" \in DOMAIN obj /\ obj.to # << >>
    THEN NestedHasNoInfluence
    ELSE pubResult = is_public([to |-> ToOf(get_object(obj, "object"))])

\* C2 witness: an empty `to` on the object, a private audience on the nested object
C2_Witness ==
  /\ pubResult = "False"
  /\ "to" \in DOMAIN obj /\ obj.to = << >>
  /\ "object" \in DOMAIN obj /\ obj.object.k = "dict"

(***************************************************************************)
(* Properties of merge_by_id (SpecMerge)                                   *)
(***************************************************************************)
\* obj[field] before the last call followed by `new`
MergeInput == Get(mergePrev, "field", << >>) \o mergeNew

\* C3: after merge_by_id, obj[field] is sorted ascending by id, holds exactly one
\* element for each id of the previous obj[field] or of new, and that element is
\* the last occurrence of the id in the previous obj[field] followed by new
C3_Merged ==
  mergeOutcome = "ok" =>
    /\ "field" \in DOMAIN mobj
    /\ LET res == mobj.field
           cat == MergeInput
       IN /\ \A i, j \in DOMAIN res : i < j => StrLess(res[i].id, res[j].id)
          /\ {res[i].id : i \in DOMAIN res} = {cat[i].id : i \in DOMAIN cat}
          /\ \A i \in DOMAIN res :
               \E n \in DOMAIN cat :
                 /\ cat[n] = res[i]
                 /\ \A m \in DOMAIN cat : m > n => cat[m].id # res[i].id

\* C3 witness: a second call whose new item replaces an existing one, with the ids
\* "10" and "2" in the result
C3_Witness ==
  /\ mergeOutcome = "ok" /\ mergeCalls = 2
  /\ "field" \in DOMAIN mergePrev
  /\ \E i \in DOMAIN mergePrev.field : \E n \in DOMAIN mergeNew :
       mergePrev.field[i].id = mergeNew[n].id /\ mergePrev.field[i].v # mergeNew[n].v
  /\ {<<"1", "0">>, <<"2">>} \subseteq {mobj.field[i].id : i \in DOMAIN mobj.field}

\* C4: when an element of the existing obj[field] or of new lacks an id, merge_by_id
\* fails with a lookup error and obj is left as it was before the call
C4_KeyError ==
  (mergeCalls > 0 /\ LacksId(MergeInput)) => (mergeOutcome = "KeyError" /\ mobj = mergePrev)

\* C4 witness: a call that fails on an item of new after items that carry ids
C4_Witness ==
  /\ mergeOutcome = "KeyError"
  /\ "field" \in DOMAIN mergePrev /\ Len(mergePrev.field) > 0
  /\ ~LacksId(mergePrev.field)
  /\ Len(mergeNew) = 2 /\ "id" \in DOMAIN mergeNew[1] /\ "id" \notin DOMAIN mergeNew[2]

(***************************************************************************)
(* Properties of the RSVP reconciler (SpecRsvp)                            *)
(***************************************************************************)
ParseableId(d) == "id" \in DOMAIN d /\ parse_tag_uri(d.id).ok

\* a record that carries a tag URI id
HasTagId(v) == v.k = "dict" /\ ParseableId(v.d)

KnownVerb(r) == "verb" \in DOMAIN r /\ r.verb \in RsvpVerbs

\* get_rsvps_from_event has run on the event as it is now
GotCurrent == getOutcome # "idle" /\ getEvent = event

Count(seq, x) == Cardinality({i \in DOMAIN seq : seq[i] = x})

\* the two sequences hold the same elements the same number of times
SameBag(a, b) == \A x \in Elems(a) \cup Elems(b) : Count(a, x) = Count(b, x)

\* the (verb, actor) and (verb, object) pairs of a list of RSVPs
VerbActor(rsvps) == [i \in DOMAIN rsvps |-> <<rsvps[i].verb, Get(rsvps[i], "actor", None)>>]
VerbObject(rsvps) == [i \in DOMAIN rsvps |-> <<rsvps[i].verb, Get(rsvps[i], "object", None)>>]

IsInvite(r) == r.verb = "invite"
NotInvite(r) == r.verb # "invite"

\* an event with a tag URI id whose attendance fields start empty
FreshEvent == ParseableId(event0) /\ \A c \in Collections : Get(event0, c, << >>) = << >>

\* R: RSVPs with a verb of the table whose actor and, for invite, object are records
\* carrying tag URI ids
WellFormed(r) ==
  /\ KnownVerb(r)
  /\ HasTagId(Get(r, "actor", None))
  /\ IsInvite(r) => HasTagId(Get(r, "object", None))

\* C5 as stated: for an event with a parseable id and empty attendance fields and
\* RSVPs R with verbs of the table and actors carrying tag URI ids, the RSVPs got
\* back after adding R hold the same multiset of (verb, actor) pairs as R, for all
\* five verbs
C5_Original ==
  (GotCurrent /\ FreshEvent /\ \A i \in DOMAIN added : WellFormed(added[i]))
  => (getOutcome = "ok" /\ SameBag(VerbActor(added), VerbActor(getResult)))

\* C5 amended: with actors (for invite, objects) that are records carrying tag URI
\* ids, the RSVPs got back hold the same (verb, actor) pairs as R for the four
\* rsvp-* verbs and the same (verb, object) pairs for invite, whose actor is the
\* event's author if it has one and absent otherwise
C5_Amended ==
  (/\ GotCurrent /\ FreshEvent
   /\ \A i \in DOMAIN added :
        /\ KnownVerb(added[i])
        /\ HasTagId(Get(added[i], IF IsInvite(added[i]) THEN "object" ELSE "actor", None)))
  => /\ getOutcome = "ok"
     /\ SameBag(VerbActor(SelectSeq(added, NotInvite)), VerbActor(SelectSeq(getResult, NotInvite)))
     /\ SameBag(VerbObject(SelectSeq(added, IsInvite)), VerbObject(SelectSeq(getResult, IsInvite)))
     /\ \A j \in DOMAIN getResult :
          IsInvite(getResult[j]) =>
            IF "author" \in DOMAIN event THEN getResult[j].actor = Dict(event.author)
            ELSE "actor" \notin DOMAIN getResult[j]

\* C5 witness: an invite and an rsvp-yes added to a fresh event and read back
C5_Witness ==
  /\ GotCurrent /\ FreshEvent /\ getOutcome = "ok"
  /\ Len(added) = 2 /\ Len(getResult) = 2
  /\ Get(added[1], "verb", NoneStr) = "invite"
  /\ Get(added[2], "verb", NoneStr) = "rsvp-yes"
  /\ "author" \in DOMAIN event

\* C6: add_rsvps_to_event leaves the event unchanged for every RSVP whose verb is
\* missing or not in the table: a call creates or extends a collection only by the
\* RSVPs of that collection's verb, and changes nothing else
C6_UnknownVerbIgnored ==
  lastAdd.called =>
    LET before == lastAdd.before
        known == SelectSeq(lastAdd.rsvps, KnownVerb)
        fields == {CollectionOf(known[i].verb) : i \in DOMAIN known}
    IN /\ DOMAIN event = DOMAIN before \cup fields
       /\ \A key \in DOMAIN before \ fields : event[key] = before[key]
       /\ \A c \in fields :
            Len(event[c]) = Len(Get(before, c, << >>))
                            + Cardinality({i \in DOMAIN known : CollectionOf(known[i].verb) = c})
       /\ (known = << >> => event = before)

\* C6 witness: a call with a follow and an RSVP without verb
C6_Witness ==
  /\ lastAdd.called /\ Len(lastAdd.rsvps) = 2
  /\ \A i \in DOMAIN lastAdd.rsvps : ~KnownVerb(lastAdd.rsvps[i])
  /\ "verb" \in DOMAIN lastAdd.rsvps[1] /\ "verb" \notin DOMAIN lastAdd.rsvps[2]
  /\ event = lastAdd.before

\* the actor (for invite, the object) of the added RSVPs with the verb, in input order
RECURSIVE AddedFor(_, _)
AddedFor(rsvps, verb) ==
  IF rsvps = << >> THEN << >>
  ELSE (IF Get(Head(rsvps), "verb", NoneStr) = verb
        THEN <<Get(Head(rsvps), IF verb = "invite" THEN "object" ELSE "actor", None)>>
        ELSE << >>) \o AddedFor(Tail(rsvps), verb)

\* C7: after any sequence of calls each collection is its initial content followed
\* by the actor (for invite, the object) of every added RSVP with its verb, in
\* input order, and nothing else of the event changes
C7_AppendOnly ==
  /\ \A i \in DOMAIN RSVP_VERB_TO_COLLECTION :
       LET verb == RSVP_VERB_TO_COLLECTION[i][1]
           c == RSVP_VERB_TO_COLLECTION[i][2]
       IN /\ Get(event, c, << >>) = Get(event0, c, << >>) \o AddedFor(added, verb)
          /\ c \in DOMAIN event <=> (c \in DOMAIN event0 \/ AddedFor(added, verb) # << >>)
  /\ \A key \in DOMAIN event0 \ Collections : event[key] = event0[key]
  /\ DOMAIN event \ Collections = DOMAIN event0 \ Collections

\* C7 witness: two calls on an event that already has attendees; an invite and an
\* rsvp-yes are appended behind the existing entries
C7_Witness ==
  /\ Len(added) = 2 /\ Len(lastAdd.rsvps) = 1
  /\ Get(added[1], "verb", NoneStr) = "invite" /\ "object" \in DOMAIN added[1]
  /\ Get(added[2], "verb", NoneStr) = "rsvp-yes"
  /\ "attending" \in DOMAIN event0 /\ Len(event0.attending) = 1
  /\ Len(event.attending) = 2 /\ Len(event.invited) = 3

\* get_rsvps_from_event has run, on an event with a tag URI id
GotParseable == getOutcome # "idle" /\ ParseableId(getEvent)

EntryOf(r) == IF r.verb = "invite" THEN r.object ELSE r.actor

EntriesOf(e, verb, c) ==
  LET l == Get(e, c, << >>) IN [j \in DOMAIN l |-> <<verb, l[j]>>]

\* the entries of the five collections, by verb in the fixed order
EntriesInOrder(e) ==
  EntriesOf(e, "rsvp-yes", "attending") \o EntriesOf(e, "rsvp-no", "notAttending")
  \o EntriesOf(e, "rsvp-maybe", "maybeAttending")
  \o EntriesOf(e, "rsvp-interested", "interested") \o EntriesOf(e, "invite", "invited")

\* C8 as stated: for an event with a parseable id get_rsvps_from_event returns one
\* RSVP per entry of the five collections, by verb in the fixed order rsvp-yes,
\* rsvp-no, rsvp-maybe, rsvp-interested, invite and within a verb in the order of
\* the collection
C8_Original ==
  GotParseable =>
    /\ getOutcome = "ok"
    /\ [j \in DOMAIN getResult |-> <<getResult[j].verb, EntryOf(getResult[j])>>]
         = EntriesInOrder(getEvent)

\* where get_rsvps_from_event returns it returns the RSVPs in that order (the part
\* of C8 the code keeps)
C8_OrderWhenReturned ==
  (GotParseable /\ getOutcome = "ok") =>
    [j \in DOMAIN getResult |-> <<getResult[j].verb, EntryOf(getResult[j])>>]
      = EntriesInOrder(getEvent)

\* C9: for an event whose id parses as (domain, event_id), the RSVP of an entry
\* whose id parses as (domain2, actor_id) has the id
\* tag:domain:event_id_rsvp_actor_id, with the event's domain, and the url
\* event url # actor_id when the event has a url; the RSVP of an entry without
\* an id has no id and the event's url
C9_SynthesizedId ==
  (GotParseable /\ getOutcome = "ok") =>
    LET ev == parse_tag_uri(getEvent.id) IN
    \A j \in DOMAIN getResult :
      LET r == getResult[j]
          entry == EntryOf(r)
      IN /\ HasTagId(entry) =>
              LET actor_id == parse_tag_uri(entry.d.id).name IN
              /\ "id" \in DOMAIN r
              /\ r.id = <<"t", "a", "g", ":">> \o ev.domain \o <<":">> \o ev.name
                         \o <<"_", "r", "s", "v", "p", "_">> \o actor_id
              /\ IF "url" \in DOMAIN getEvent
                 THEN r.url = Str(getEvent.url \o <<"#">> \o actor_id)
                 ELSE r.url = None
         /\ (entry.k = "dict" /\ "id" \notin DOMAIN entry.d) =>
              /\ "id" \notin DOMAIN r
              /\ r.url = GetStr(getEvent, "url")

\* C9 witness: the event tag:e.x,2:1 with a url, Ann (tag:a.b:7) attending and a
\* record without id invited: the RSVPs are tag:e.x:1_rsvp_7 with url#7 and one
\* without id
C9_Witness ==
  /\ getOutcome = "ok" /\ "id" \in DOMAIN getEvent /\ getEvent.id = EventIdYear
  /\ \E j \in DOMAIN getResult :
       /\ EntryOf(getResult[j]) = Dict(Ann)
       /\ getResult[j].id = <<"t", "a", "g", ":", "e", ".", "x", ":", "1", "_", "r", "s", "v", "p", "_", "7">>
       /\ getResult[j].url = Str(EventUrl \o <<"#", "7">>)
  /\ \E j \in DOMAIN getResult :
       /\ EntryOf(getResult[j]) = Dict(NoId)
       /\ "id" \notin DOMAIN getResult[j]
       /\ getResult[j].url = Str(EventUrl)

\* the entries the call was made on
AllEntries(e) == {EntriesInOrder(e)[j][2] : j \in DOMAIN EntriesInOrder(e)}

\* C10 as stated: get_rsvps_from_event does not fail on the shape of an entry: a
\* bare id string, or a record whose id is no tag URI, yields its RSVP, without a
\* synthesized id, and the call returns the RSVPs of all entries
C10_Original ==
  (GotParseable /\ \A entry \in AllEntries(getEvent) : entry.k \in {"dict", "str"})
  => /\ getOutcome = "ok"
     /\ Len(getResult) = Len(EntriesInOrder(getEvent))
     /\ \A j \in DOMAIN getResult :
          ~HasTagId(EntryOf(getResult[j])) => "id" \notin DOMAIN getResult[j]

\* get_rsvps_from_event has run, on an event without an id or with an id that is
\* no tag URI
GotUnparseable == getOutcome # "idle" /\ ~ParseableId(getEvent)

\* C11: for an event that has no id, or whose id does not parse as a tag URI,
\* get_rsvps_from_event returns the empty sequence, without failing, whatever
\* the attendance collections contain
C11_EmptyWithoutTagId ==
  GotUnparseable => (getOutcome = "ok" /\ getResult = << >>)

\* C11 witness: the call on an event whose id is "e1", with None invited (an
\* entry the loop would fail on), has returned
C11_Witness ==
  /\ GotUnparseable /\ getOutcome = "ok"
  /\ "id" \in DOMAIN getEvent /\ getEvent.id = EventIdBad
  /\ "invited" \in DOMAIN getEvent /\ getEvent.invited = <<None>>

\* C12: every RSVP made from `invited` has verb invite, the invited entry as
\* object and the event's author as actor when the event has one, no actor
\* otherwise; the RSVPs of the other four verbs have the entry as actor, which the
\* event's author never replaces, and no object
C12_InviteActorObject ==
  (GotParseable /\ getOutcome = "ok") =>
    /\ Len(getResult) = Len(EntriesInOrder(getEvent))
    /\ \A j \in DOMAIN getResult :
         LET r == getResult[j]
             verb == EntriesInOrder(getEvent)[j][1]
             entry == EntriesInOrder(getEvent)[j][2]
         IN IF verb = "invite"
            THEN /\ r.verb = "invite"
                 /\ "object" \in DOMAIN r /\ r.object = entry
                 /\ IF "author" \in DOMAIN getEvent
                    THEN "actor" \in DOMAIN r /\ r.actor = Dict(getEvent.author)
                    ELSE "actor" \notin DOMAIN r
            ELSE /\ r.verb = verb
                 /\ "actor" \in DOMAIN r /\ r.actor = entry
                 /\ "object" \notin DOMAIN r

\* C12 witness: an event with an author, Bea attending and Ann invited: Ann's
\* RSVP has the author as actor and Ann as object, Bea's has Bea as actor
C12_Witness ==
  /\ GotParseable /\ getOutcome = "ok"
  /\ "author" \in DOMAIN getEvent /\ getEvent.author = Host
  /\ \E j \in DOMAIN getResult :
       /\ getResult[j].verb = "invite" /\ getResult[j].object = Dict(Ann)
       /\ getResult[j].actor = Dict(Host)
  /\ \E j \in DOMAIN getResult :
       /\ getResult[j].verb = "rsvp-yes" /\ getResult[j].actor = Dict(Bea)

(***************************************************************************)
(* Properties of activity_changed (SpecChange)                             *)
(***************************************************************************)
\* the two values of a field differ and at least one of them is non-empty
Differ(b, a, field) ==
  /\ Get(b, field, None) # Get(a, field, None)
  /\ Truthy(Get(b, field, None)) \/ Truthy(Get(a, field, None))

NestedBefore == get_object(acBefore, "object")
NestedAfter == get_object(acAfter, "object")

\* C13 as stated: activity_changed returns True exactly when, for some field among
\* objectType, verb, to, content, location, image and inReplyTo, the two values
\* differ and one of them is non-empty, on the activities or on their nested
\* objects; differences in other fields alone give False
C13_Original ==
  acDone =>
    (acResult <=>
       \E field \in ComparedFields \cup {"inReplyTo"} :
          Differ(acBefore, acAfter, field) \/ Differ(NestedBefore, NestedAfter, field))

\* a value without the author key when it is a single record, as it is otherwise
SansAuthor(v) == IF v.k = "dict" THEN Dict(Pop(v.d, {"author"})) ELSE v

\* two inReplyTo values differ, compared without their author when both are single
\* records, and one of them is non-empty
DifferInReplyTo(b, a) ==
  LET b0 == Get(b, "inReplyTo", None)
      a0 == Get(a, "inReplyTo", None)
  IN IF b0.k = "dict" /\ a0.k = "dict"
     THEN /\ SansAuthor(b0) # SansAuthor(a0)
          /\ Truthy(SansAuthor(b0)) \/ Truthy(SansAuthor(a0))
     ELSE Differ(b, a, "inReplyTo")

\* C13 amended: activity_changed returns True exactly when, on the activities or
\* on their nested objects, the two values of objectType, verb, to, content,
\* location or image differ with one of them non-empty, or the two inReplyTo values
\* do, two inReplyTo values that are both single records being compared without
\* their author; differences in other fields alone give False
C13_Amended ==
  acDone =>
    (acResult <=>
       \/ \E field \in ComparedFields :
            Differ(acBefore, acAfter, field) \/ Differ(NestedBefore, NestedAfter, field)
       \/ DifferInReplyTo(acBefore, acAfter)
       \/ DifferInReplyTo(NestedBefore, NestedAfter))

\* C13 witness: the revisions differ in the content of the nested object only and
\* the call returned True
C13_Witness ==
  /\ acDone /\ acResult
  /\ "object" \in DOMAIN acBefore /\ acBefore.object.k = "dict"
  /\ Pop(acAfter, {"object"}) = Pop(acBefore, {"object"})
  /\ Pop(NestedAfter, {"content"}) = Pop(NestedBefore, {"content"})
  /\ Differ(NestedBefore, NestedAfter, "content")

\* a reply pointer, or each reply pointer of a list, without its author
SansAuthors(v) ==
  CASE v.k = "dict" -> Dict(Pop(v.d, {"author"}))
    [] v.k = "list" -> List([i \in DOMAIN v.l |-> SansAuthor(v.l[i])])
    [] OTHER -> v

\* the two revisions are alike in every compared field, but for the authors of
\* their reply pointers
AlikeButReplyAuthors(b, a) ==
  /\ \A field \in ComparedFields : Get(b, field, None) = Get(a, field, None)
  /\ SansAuthors(Get(b, "inReplyTo", None)) = SansAuthors(Get(a, "inReplyTo", None))

\* C14 as stated: two revisions whose inReplyTo values, on the activity or on the
\* nested object, differ only in the author of their reply pointers are reported
\* as unchanged, whether inReplyTo is a single record or a list of records
C14_Original ==
  (/\ acDone
   /\ AlikeButReplyAuthors(acBefore, acAfter)
   /\ AlikeButReplyAuthors(NestedBefore, NestedAfter))
  => ~acResult

(***************************************************************************)
(* Properties of append_in_reply_to (SpecAppend)                           *)
(***************************************************************************)
\* the activity carries a nested object
HasNested(a) == Truthy(Get(a, "object", None))

\* the inReplyTo that can be read off the activity after the call: that of the
\* nested record (the first one of a list) when there is a nested object, that
\* of the activity itself otherwise; a bare id string has no fields to read
ReachableInReplyTo(a) ==
  IF ~HasNested(a) THEN Get(a, "inReplyTo", None)
  ELSE LET held == a.object
           first == IF held.k = "list" THEN held.l[1] ELSE held
       IN IF first.k = "dict" THEN Get(first.d, "inReplyTo", None) ELSE None

\* the entries of a sequence whose url no earlier entry has
FirstSeen(l) ==
  SelectSeq([i \in DOMAIN l |-> [at |-> i, entry |-> l[i]]],
            LAMBDA e : \A j \in 1..(e.at - 1) : get_url(l[j]) # get_url(e.entry))

Entries(l) == [i \in DOMAIN l |-> l[i].entry]

\* the inReplyTo entries of an argument: those of its nested object when it has
\* one, its own otherwise
RepliesOf(a) ==
  get_list(IF HasNested(a) THEN get_object(a, "object") ELSE a, "inReplyTo")

\* C15 as stated: after append_in_reply_to(before, after) with both arguments
\* non-empty, the inReplyTo reachable from `after`, on its nested object when it
\* has one, be it a record or a bare id string, on `after` itself otherwise, is
\* the list of after's previous entries followed by before's, later entries of an
\* already seen url dropped, in first-seen order
C15_Original ==
  (arDone /\ DOMAIN arBefore # {} /\ DOMAIN arAfter0 # {}) =>
    ReachableInReplyTo(arAfter)
      = List(Entries(FirstSeen(RepliesOf(arAfter0) \o RepliesOf(arBefore))))

\* the part of C15 the code keeps: the same, for an `after` whose nested object,
\* if any, is a record
C15_ExceptBareId ==
  (/\ arDone /\ DOMAIN arBefore # {} /\ DOMAIN arAfter0 # {}
   /\ Get(arAfter0, "object", None).k # "str")
  => ReachableInReplyTo(arAfter)
       = List(Entries(FirstSeen(RepliesOf(arAfter0) \o RepliesOf(arBefore))))

(***************************************************************************)
(* Properties of original_post_discovery (SpecOpd)                         *)
(***************************************************************************)
OpdDone == opdPc = "done"

Candidates == {opdArgs.candidates[i] : i \in DOMAIN opdArgs.candidates}

\* the follow_redirects calls that were redirected to a different text/html URL
Redirected ==
  {opdFetched[i] : i \in {j \in DOMAIN opdFetched :
      opdFetched[j].resolved.url # opdFetched[j].url /\ opdFetched[j].resolved.html}}

\* no allowlist is given
NoDomains == opdArgs.domains = None \/ opdArgs.domains = List(<< >>)

\* the url's domain is a listed domain or a subdomain of one
OnListedDomain(url) ==
  \E i \in DOMAIN opdArgs.domains.l :
     \E n \in 0..Len(url.host) :
        SubSeq(url.host, n + 1, Len(url.host)) = opdArgs.domains.l[i]

\* a host with a single label, or on a reserved or local TLD
ReservedHost(url) ==
  Len(url.host) = 1 \/ url.host[Len(url.host)] \in ReservedTlds

\* the urls classified by their own domain: candidates and redirect destinations
\* that are neither postponed as a redirect source nor left out for their host
ClassifiedUrls ==
  {url \in Candidates \cup {f.resolved.url : f \in Redirected} :
     /\ url \notin Vals(opdRedirects)
     /\ opdArgs.include_reserved_hosts \/ ~ReservedHost(url)}

C17_Original ==
  (OpdDone /\ opdArgs.include_redirect_sources) =>
    \A f \in Redirected :
       /\ f.url \in opdOriginals <=> f.resolved.url \in opdOriginals
       /\ f.url \in opdMentions <=> f.resolved.url \in opdMentions

\* no other candidate was redirected to the destination of f
SoleSource(f) == \A g \in Redirected : g.resolved.url = f.resolved.url => g.url = f.url

\* the part of C17 the code keeps: the same for a candidate that is the only one
\* redirected to its destination
C17_SoleSource ==
  (OpdDone /\ opdArgs.include_redirect_sources) =>
    \A f \in Redirected :
       SoleSource(f) =>
         /\ f.url \in opdOriginals <=> f.resolved.url \in opdOriginals
         /\ f.url \in opdMentions <=> f.resolved.url \in opdMentions

\* C18 as stated: without include_redirect_sources, no candidate that was probed
\* and redirected to a different text/html url is in originals or mentions
C18_Original ==
  (OpdDone /\ ~opdArgs.include_redirect_sources) =>
    \A f \in Redirected : f.url \notin opdOriginals \cup opdMentions

\* the part of C18 the code keeps
C18_SoleSource ==
  (OpdDone /\ ~opdArgs.include_redirect_sources) =>
    \A f \in Redirected : SoleSource(f) => f.url \notin opdOriginals \cup opdMentions

\* the first n elements of a sequence, all of it when it is shorter
FirstN(l, n) == SubSeq(l, 1, IF n < Len(l) THEN n ELSE Len(l))

\* C19: with max_redirect_fetches = N the fetches made are one per candidate on
\* the first N candidates, in order, never more than N; a candidate beyond the
\* first N is never fetched and is classified by its own domain.  Without
\* max_redirect_fetches every candidate is fetched exactly once.
C19_FetchLimit ==
  LET max == opdArgs.max_redirect_fetches
      fetched == [i \in DOMAIN opdFetched |-> opdFetched[i].url]
  IN /\ opdPc = "probe" =>
          /\ max # None => Len(fetched) <= max.n
          /\ fetched = FirstN(opdArgs.candidates, Len(fetched))
     /\ OpdDone =>
          /\ fetched = IF max = None THEN opdArgs.candidates
                       ELSE FirstN(opdArgs.candidates, max.n)
          /\ max # None =>
               \A i \in DOMAIN opdArgs.candidates :
                  i > max.n =>
                    LET url == opdArgs.candidates[i] IN
                    IF ~opdArgs.include_reserved_hosts /\ ReservedHost(url)
                    THEN url \notin opdOriginals \cup opdMentions
                    ELSE IF NoDomains \/ OnListedDomain(url)
                    THEN url \in opdOriginals /\ url \notin opdMentions
                    ELSE url \in opdMentions /\ url \notin opdOriginals

\* C19 witness: max_redirect_fetches = 1 and two candidates; only the first was
\* fetched and the second, a short link on t.co, is a mention under domains a.com
C19_Witness ==
  /\ OpdDone /\ opdArgs.max_redirect_fetches = Number(1)
  /\ opdArgs.candidates = <<SubUrl, ShortUrl>>
  /\ Len(opdFetched) = 1 /\ opdFetched[1].url = SubUrl
  /\ opdArgs.domains = List(<<<<"a", "com">>>>)
  /\ ShortUrl \in opdMentions

\* C20 as stated: without include_reserved_hosts neither set holds a url whose
\* host is a single label or on a reserved or local TLD, the redirect sources of
\* public destinations included
C20_Original ==
  (OpdDone /\ ~opdArgs.include_reserved_hosts) =>
    \A url \in opdOriginals \cup opdMentions : ~ReservedHost(url)

\* the part of C20 the code keeps: the urls classified by their own domain
C20_ExceptSources ==
  (OpdDone /\ ~opdArgs.include_reserved_hosts) =>
    \A url \in (opdOriginals \cup opdMentions) \ {f.url : f \in Redirected} :
       ~ReservedHost(url)

(***************************************************************************)
(* Properties of the candidates of original_post_discovery (SpecHarvest)   *)
(***************************************************************************)
\* the object the links are read from
HarvestedObject ==
  IF "object" \in DOMAIN opdArgs.activity THEN opdArgs.activity.object.d
  ELSE opdArgs.activity

\* the raw links read from attachments, tags, content, upstreamDuplicates and
\* targetUrl
HarvestedLinks ==
  LET o == HarvestedObject
      tagged == Get(o, "attachments", << >>) \o Get(o, "tags", << >>)
      content == Get(o, "content", << >>)
  IN {tagged[i].url : i \in {j \in DOMAIN tagged :
          /\ "url" \in DOMAIN tagged[j]
          /\ Get(tagged[j], "objectType", "article") \in {"article", "mention", "note"}}}
     \cup {content[i].raw : i \in {j \in DOMAIN content : content[j].w = "link"}}
     \cup Elems(Get(o, "upstreamDuplicates", << >>))
     \cup (IF "targetUrl" \in DOMAIN o THEN {o.targetUrl} ELSE {})

CutShort(raw) == EndsWith(raw.path, "...") \/ EndsWith(raw.path, EllipsisChar)

FetchedUrls == {opdFetched[i].url : i \in DOMAIN opdFetched}

\* C21: a raw link read from content, attachments, tags, upstreamDuplicates or
\* targetUrl that ends in "..." or in the ellipsis character, or that does not
\* start with http:// or https://, is in neither originals nor mentions and is
\* never probed for redirects
C21_CutShortExcluded ==
  \A raw \in HarvestedLinks :
     (CutShort(raw) \/ raw.scheme \notin {"http", "https"}) =>
        /\ ToUrl(raw) \notin opdOriginals \cup opdMentions
        /\ ToUrl(raw) \notin FetchedUrls

\* C21 witness: the call has returned for an activity with a tag link ending in
\* "...", a content link ending in the ellipsis character and another content
\* link that was probed and is in a result set
C21_Witness ==
  /\ OpdDone
  /\ {RawDots, RawEllipsis} \subseteq HarvestedLinks
  /\ ToUrl(RawOther) \in FetchedUrls
  /\ ToUrl(RawOther) \in opdOriginals \cup opdMentions

\* the url synthesized from the citation at the end of the content, if any
Synthesized == Elems(permashortcitations(Get(HarvestedObject, "content", << >>)))

\* C22 as stated: the filter for links cut short is applied before the urls
\* synthesized from permashortcitations are merged in, so such a url is kept as a
\* candidate even when it ends in "..." or the ellipsis character
C22_Original ==
  \A raw \in Synthesized : CutShort(raw) => ToUrl(raw) \in Candidates

\* C23 as stated: a url synthesized from a citation at the end of the content is
\* always in originals and never in mentions, also when domains is given and
\* the cited domain is not on or below a listed domain
C23_Original ==
  OpdDone =>
    \A raw \in Synthesized :
       ~CutShort(raw) =>
          /\ ToUrl(raw) \in opdOriginals
          /\ ToUrl(raw) \notin opdMentions

\* the part of C23 the code keeps: without a domains allowlist
C23_WithoutDomains ==
  (OpdDone /\ NoDomains) =>
    \A raw \in Synthesized :
       ~CutShort(raw) =>
          /\ ToUrl(raw) \in opdOriginals
          /\ ToUrl(raw) \notin opdMentions

(***************************************************************************)
(* Properties of prefix_urls (SpecPrefix)                                  *)
(***************************************************************************)
\* the dicts among the values v
Dicts(s) == SelectSeq(s, LAMBDA v : v.k = "dict")

\* the elements prefix_urls visits from the dict a: a itself, its object, author
\* and actor, its reply items, attachments and tags
ElemsOf(a) ==
  Dicts(<<Dict(a), Get(a, "object", None), Get(a, "author", None), Get(a, "actor", None)>>
        \o Get(Get(a, "replies", Dict(EmptyDict)).d, "items", List(<< >>)).l
        \o Get(a, "attachments", List(<< >>)).l
        \o Get(a, "tags", List(<< >>)).l)

\* the same, with the elements of the object as well
Visited(a) ==
  ElemsOf(a) \o (IF "object" \in DOMAIN a /\ a.object.k = "dict"
                 THEN Tail(ElemsOf(a.object.d)) ELSE << >>)

\* the url of every value of the field of an element
FieldUrls(elem, field) ==
  LET vals == get_list(elem.d, field) IN
  [i \in DOMAIN vals |-> IF vals[i].k = "dict" THEN Get(vals[i].d, "url", None) ELSE None]

\* a url with the prefix added unless it has it
Prefixed(url, prefix) ==
  IF Truthy(url) /\ ~StartsWith(url.s, prefix) THEN Str(prefix \o url.s) ELSE url

\* a value with the url of every value of the field blanked, at every depth
RECURSIVE Erase(_, _)
EraseUrl(v, field) ==
  IF v.k = "dict" /\ "url" \in DOMAIN v.d
  THEN Dict([key \in DOMAIN v.d |-> IF key = "url" THEN None ELSE Erase(v.d[key], field)])
  ELSE Erase(v, field)

Erase(v, field) ==
  IF v.k = "dict"
  THEN Dict([key \in DOMAIN v.d |->
               IF key # field THEN Erase(v.d[key], field)
               ELSE IF v.d[key].k = "list"
                    THEN List([i \in DOMAIN v.d[key].l |-> EraseUrl(v.d[key].l[i], field)])
                    ELSE EraseUrl(v.d[key], field)])
  ELSE IF v.k = "list" THEN List([i \in DOMAIN v.l |-> Erase(v.l[i], field)])
  ELSE v

MeetupDone == muOutcome # "idle"

MeetupVerb == Get(muObj, "verb", None)

InReplyTo == Get(muObj, "inReplyTo", None)

RsvpVerb == MeetupVerb \in {PyStr("rsvp-yes"), PyStr("rsvp-no")}

Aborted(msg) ==
  /\ muOutcome = "returned" /\ muResult.abort
  /\ muResult.error_plain = PyStr(msg) /\ muResult.error_html = PyStr(msg)

\* C25 as stated: create on an rsvp-yes or rsvp-no activity whose inReplyTo is an
\* event URL, with or without www. and a trailing slash, sends one POST with the
\* bearer token and body response=yes or response=no to the rsvps endpoint of the
\* event and returns the event URL + '#rsvp-by-' + the actor's numeric id
C25_Original ==
  (MeetupDone /\ muEntry = "create" /\ RsvpVerb
     /\ InReplyTo \in {PyStr(u) : u \in EventUrls}
     /\ Get(muObj, "actor", None) = MeetupActor) =>
    /\ muOutcome = "returned"
    /\ muPosts = <<[url |-> "https://api.meetup.com/g/events/1/rsvps",
                    data |-> "response=" \o Drop(MeetupVerb.s, 5),
                    authorization |-> "Bearer token-here"]>>
    /\ muResult.content =
         Dict([url |-> PyStr(InReplyTo.s \o "#rsvp-by-" \o MemberId),
               type |-> PyStr("rsvp")])

\* the message for a verb that has no response
Unsupported(verb) ==
  IF verb \in {PyStr("rsvp-maybe"), PyStr("rsvp-interested")}
  THEN "Meetup.com does not support " \o VerbName(verb)
  ELSE "Meetup.com syndication does not support " \o VerbName(verb)

\* C26: for a verb other than rsvp-yes and rsvp-no, create and preview_create
\* return an aborted result whose error_plain and error_html are the message
\* for that verb, whatever else the activity holds
C26_UnsupportedVerb ==
  (MeetupDone /\ muEntry \in {"create", "preview_create"} /\ ~RsvpVerb) =>
    Aborted(Unsupported(MeetupVerb))

\* C26 witness: preview_create on an rsvp-maybe with an event URL to reply to
C26_Witness ==
  /\ muEntry = "preview_create" /\ MeetupVerb = PyStr("rsvp-maybe")
  /\ Get(muObj, "object", None) = List(<<Dict([url |-> PyStr(MeetupEventUrl)])>>)
  /\ InReplyTo = PyStr(MeetupEventUrl)
  /\ Aborted("Meetup.com does not support rsvp-maybe")

\* C27 as stated: create on an rsvp-yes or rsvp-no activity whose inReplyTo is a
\* URL that is not an event URL returns an aborted result with 'Invalid
\* Meetup.com event URL' in error_plain and error_html
C27_Original ==
  (MeetupDone /\ muEntry = "create" /\ RsvpVerb
     /\ InReplyTo \in {PyStr(u) : u \in InvalidUrls}) =>
    Aborted("Invalid Meetup.com event URL")

\* the checks of _create, on its arguments
BadPreview == PreviewOf(muEntry, muPreview) \notin {"True", "False"}

NoInReplyTo ==
  LET o == Get(muObj, "object", None) IN
  \/ o \in {None, List(<< >>)}
  \/ o.k = "pystr"
  \/ o.k = "list" /\ ~IsTrue(Get(o.l[1].d, "url", None))

BadEventUrl ==
  LET o == Get(muObj, "object", None) IN
  /\ o.k = "list" /\ o.l # << >> /\ IsTrue(Get(o.l[1].d, "url", None))
  /\ LET url == URL_CANONICALIZER(o.l[1].d.url.s, muNet) IN
       url = None \/ ~EVENT_URL_RE(url.s).match

Wrote == \E i \in DOMAIN ghCalls : ghCalls[i] \in Writes

BasePath == SplitOn(StripSlashes(urlparse(ghBaseUrl).path), "/")

\* the validations of a request: the type, the in-reply-to URL, its fragment,
\* the shape of its path, and for a tag post a tag that is a label
Validated ==
  /\ ghType = "" \/ ghType \in Publishable
  /\ ghBaseUrl # ""
  /\ LET fragment == urlparse(ghBaseUrl).fragment IN
       fragment = "" \/ IssueComment(fragment) # ""
  /\ IF ghType \in {"comment", "tag"} THEN IssuePath(BasePath) ELSE RepoPath(BasePath)
  /\ ghType = "tag" => ghTags \cap ghLabels # {}

\* C29 as stated: a call that creates something is issued only when preview is
\* False and every validation has passed, and a result returned with an error has
\* issued no such call
C29_Original ==
  (ghOutcome # "idle") =>
    /\ Wrote => (~ghPreview /\ Validated)
    /\ (ghOutcome = "returned" /\ ghResult.error # "") => ~Wrote

\* the part of C29 the code keeps: nothing is created on a preview or before
\* every validation has passed
C29_PreviewNeverWrites ==
  (ghOutcome # "idle") => (Wrote => (~ghPreview /\ Validated))

(***************************************************************************)
(* Disjointness of the results of original_post_discovery (SpecOpd)        *)
(***************************************************************************)
\* C30: the two sets original_post_discovery returns are disjoint, for every
\* candidate list, domains list, flag setting and redirect outcome
C30_Disjoint ==
  OpdDone => opdOriginals \cap opdMentions = {}

\* C30 witness: under domains a.com the short link was redirected to sub.a.com and
\* is in originals with it, the link on b.org is in mentions
C30_Witness ==
  /\ OpdDone /\ opdArgs.include_redirect_sources
  /\ \E f \in Redirected : f.url = ShortUrl /\ f.resolved.url = SubUrl
  /\ {ShortUrl, SubUrl} \subseteq opdOriginals
  /\ OtherUrl \in opdMentions

====
